---- MODULE Spec2Model ----
(***************************************************************************)
(* Receipt metadata extraction (src/src/extractor/*.py) and receipt       *)
(* classification (src/src/receipt_classifier.py) as a state machine.     *)
(*                                                                         *)
(* An OCR line is a record describing the shape the regexes of the source *)
(* recognise:                                                              *)
(*   k    the kind of line (see the constructors below)                    *)
(*   txt  the stripped text of the line                                    *)
(*   nm   the name part (group 1 of an inline match, or the name with a    *)
(*        leading "Nx " quantity prefix removed)                           *)
(*   c    an amount in centavos (price, unit price, discount amount), or   *)
(*        None                                                             *)
(*   q    a count (quantity, number of digits, stated item count), or None *)
(*   suf  the letter that follows a price, or the character that follows   *)
(*        the date token of a line ("" when there is none)                 *)
(*   x, y further values of the line ("" when there are none)              *)
(* Amounts are integers in centavos: every amount the regexes accept has   *)
(* exactly two decimals, so round(x, 2) is the identity on them.           *)
(***************************************************************************)
EXTENDS Integers, Sequences, FiniteSets, TLC

\* Python's None for an int / float / index value.
None == -1
\* Python's None for a string value.
NoStr == ""

L(k, txt, nm, c, q, suf) ==
    [k |-> k, txt |-> txt, nm |-> nm, c |-> c, q |-> q, suf |-> suf, x |-> "", y |-> ""]

\* ---- line constructors (one per shape) ---------------------------------
Name(t)          == L("name", t, t, None, None, "")
QName(t, q, nm)  == L("name", t, nm, None, q, "")
Digits(t, len)   == L("digits", t, "", None, len, "")
Price(t, c, suf) == L("price", t, "", c, None, suf)
Qty(t, q, c)     == L("qty", t, "", c, q, "")
Junk(t)          == L("junk", t, "", None, None, "")
Disc(t, c)       == L("disc", t, "", c, None, "")
Kw(t)            == L("kw", t, "", None, None, "")
Pa(t)            == L("pa", t, "", None, None, "")
Php(t)           == L("php", t, "", None, None, "")
Count(t, q)      == L("count", t, "", None, q, "")
Inline(t, nm, c) == L("inline", t, nm, c, None, "")
KwInline(t, nm, c) == L("kwinline", t, nm, c, None, "")
Sep(t)           == L("sep", t, "", None, None, "")
Hdr(t)           == L("hdr", t, "", None, None, "")
QInline(t, q, nm, c) == L("qinline", t, nm, c, q, "")
InlineQ(t, nm, q, c) == L("inlineq", t, nm, c, q, "")
NameQty(t, nm, q, c) == L("nameqty", t, nm, c, q, "")
OPrice(t, c)     == L("oprice", t, "", c, None, "")
KwProd(t)        == L("kwprod", t, t, None, None, "")
Blank            == L("blank", " ", "", None, None, "")
InvLine(t, v)    == L("inv", t, v, None, None, "")
DateLine(t)      == L("date", t, t, None, None, "")
\* A line that is a name for every class and holds a date token tok followed
\* by the character after; last is what the day/month pattern finds when the
\* line has a date context word ("" otherwise).
DateTok(t, tok, after, last) == [L("date", t, tok, None, None, after) EXCEPT !.x = last]
\* A validity-period line: its first date token tok is followed by "-".
RangeLine(t, tok) == L("range", t, tok, None, None, "-")
\* A TXN line: number inv, first MM-DD-YY token tok followed by after.
TxnLine(t, inv, tok, after) == [L("txn", t, tok, None, None, after) EXCEPT !.x = inv]
\* A line that holds a time: hh, mm and ss are its digit groups (ss is ""
\* when it has no seconds), sfx the A / P / AM / PM suffix as written, with
\* the blank before it ("" when there is none).
TimeLine(t, hh, mm, ss, sfx) ==
    [L("time", t, hh, None, None, sfx) EXCEPT !.x = mm, !.y = ss]
TinLine(t, v)    == L("tin", t, v, None, None, "")

Extractors == {"pharmacy_column", "supermarket", "fast_food",
               "department_store", "inline_price", "generic"}

\* ---- per-line predicates -------------------------------------------------

\* _price_of of each extractor class: the amount of a price-only line, or None.
\* Every concrete class overrides BaseExtractor._price_of with its own
\* _PRICE_ONLY: fast_food and department_store accept no suffix letter,
\* pharmacy_column also repairs O/I/L misreads and rejects "N @ P" lines.
PriceOf(e, l) ==
    IF l.k = "price" THEN
        IF e \in {"fast_food", "department_store"}
        THEN (IF l.suf = "" THEN l.c ELSE None)
        ELSE (IF l.suf \in {"", "T", "X", "Z", "V", "v", "y"} THEN l.c ELSE None)
    ELSE IF l.k = "oprice" /\ e = "pharmacy_column" THEN l.c
    ELSE None

\* Python truthiness of an optional amount: "if p" / "if p and p > 0".
Pos(p) == p # None /\ p > 0

\* _is_barcode accepting a digit line of any length.
IsBarcode_AnyDigits(l) == l.k = "digits"

\* _is_barcode: _BARCODE = ^\d{6,14}$ on the stripped line.
IsBarcode(l) == l.k = "digits" /\ l.q >= 6 /\ l.q <= 14

IsTaxedPrice(l) == l.k = "price" /\ l.suf \in {"T", "X", "Z"}

\* _parse_qty_line: <<qty, unit_price>> or <<None, None>>.
ParseQtyLine(l) == IF l.k = "qty" /\ l.q <= 9999 THEN <<l.q, l.c>> ELSE <<None, None>>

MercuryJunk(l) == l.k \in {"junk", "disc"}

IsSeparator(e, l) ==
    \/ l.k = "sep"
    \/ l.k = "count" /\ e \in {"pharmacy_column", "supermarket"}

PaMode(l) == l.k = "pa"

PaymentMethod(l) == l.k = "hdr"

\* ^\d{3,5}$
ShortDigits(l) == l.k = "digits" /\ l.q >= 3 /\ l.q <= 5

\* The name a plain PRICE_INLINE match captures in group 1, as a line.
InlineName(l) ==
    IF l.k = "inline" THEN Name(l.nm)
    ELSE IF l.k = "kwinline" THEN Kw(l.nm)
    ELSE IF l.k = "qinline" THEN Name(ToString(l.q) \o " " \o l.nm)
    ELSE Name(l.nm \o "   " \o ToString(l.q))

IsPriceInline(l) == l.k \in {"inline", "kwinline", "qinline", "inlineq"}

\* _is_name of each extractor class (_is_generic_name for inline_price and
\* generic).  Only pharmacy_column reads the position of the line.
IsName(e, l, total_lines, line_idx) ==
    IF e = "pharmacy_column" THEN
        /\ Len(l.txt) >= 2
        /\ PriceOf(e, l) = None
        /\ ~IsBarcode(l)
        /\ l.k \notin {"digits", "qty", "pa", "sep", "count", "kw", "kwinline",
                        "junk", "disc", "hdr", "blank", "inv", "tin", "range", "txn"}
        /\ (l.k = "kwprod" =>
               ~(total_lines > 8 /\ line_idx > 0 /\ 4 * line_idx > 3 * total_lines))
    ELSE IF e = "supermarket" THEN
        /\ Len(l.txt) >= 2
        /\ PriceOf(e, l) = None
        /\ l.k \notin {"digits", "sep", "count", "kw", "kwinline", "disc",
                        "kwprod", "blank", "inv", "tin"}
    ELSE IF e \in {"fast_food", "department_store"} THEN
        /\ Len(l.txt) >= 2
        /\ PriceOf(e, l) = None
        /\ l.k \notin {"digits", "sep", "kw", "kwinline", "kwprod", "blank",
                        "inv", "tin"}
        /\ (l.k = "hdr" => e = "department_store")
    ELSE
        /\ Len(l.txt) >= 3
        /\ l.k \notin {"digits", "sep", "kw", "kwinline", "kwprod", "blank",
                        "inv", "tin"}

\* _ZONE_END of each extractor module: the keyword lines that close the zone.
ZoneEnd(e, l) ==
    /\ l.k = "kw"
    /\ IF e = "fast_food"
       THEN l.txt \in {"SUBTOTAL", "SUB TOTAL", "GRAND TOTAL", "CHANGE", "TOTAL"}
       ELSE IF e = "department_store"
       THEN l.txt \in {"SUBTOTAL", "SUB TOTAL", "GRAND TOTAL", "CHANGE",
                       "TOTAL AMOUNT", "AMOUNT DUE", "NET AMOUNT"}
       ELSE l.txt \in {"SUBTOTAL", "SUB TOTAL", "GRAND TOTAL", "CHANGE",
                       "CHANGE DUE", "AMOUNT TENDERED", "CASH TENDERED",
                       "TOTAL PAYMENT"}

\* _DEFINITIVE_FINANCIAL / _DEFINITIVE / _DEF of each extractor module.
Definitive(e, l) ==
    /\ l.k = "kw"
    /\ \/ l.txt \in {"CHANGE", "CASH TENDERED", "AMOUNT TENDERED", "TOTAL PAYMENT",
                      "TOTAL AMOUNT", "NET AMOUNT", "AMOUNT DUE", "GRAND TOTAL", "CASH"}
       \/ l.txt = "TOTAL SALES" /\ e \notin {"fast_food", "department_store"}

\* ---- the state ------------------------------------------------------------
VARIABLES
    ext,      \* the extractor class the call runs on
    lines,    \* the caller's list of OCR lines (never written by the call)
    pc,       \* where the call stands
    step,     \* the number of the pass of _items that runs next
    cleaned,  \* extract(): the stripped, non-blank lines
    zs,       \* item zone start
    ze,       \* item zone end
    used,     \* the set of consumed line indices (0-based, as in the source)
    skip,     \* skip_prices
    items,    \* the items emitted so far
    rec,      \* the record extract() returned
    calls,    \* number of extract() calls completed before this one
    seen,     \* the records earlier calls returned, with their extractor and input
    cls       \* the (receipt_type, confidence) classify() returned

VARIABLES
    raw,      \* the line correct_line() was called with, a sequence of characters
    text,     \* correct_line(): the line after the fixes applied so far
    fix       \* the number of the fix of correct_line() that runs next (0: not called)

VARIABLES
    paths,    \* batch_extract(): the image paths it was called with
    results,  \* batch_extract(): the list of results built so far
    bpc,      \* where batch_extract() stands: "idle", "loop", "returned" or "raised"
    ocrs      \* the number of calls of self.ocr.ocr made so far

VARIABLES
    EXTRACTORS, \* ExtractorFactory._EXTRACTORS: receipt type -> instance (0: no entry)
    made,       \* the receipt type of every extractor instance constructed so far
    tpc,        \* per thread: where its get_extractor() call stands
    rtype,      \* per thread: the local receipt_type
    inst,       \* per thread: the instance its cls() call built (0: none)
    got         \* per thread: the instance get_extractor() returned (0: none yet)

\* The threads that call get_extractor concurrently.
NThreads == 2
Threads == 1..NThreads

\* The factory before any call: no cached instance, every thread idle.
NoInstances == [ty \in Extractors |-> 0]
AllIdle == [t \in Threads |-> "idle"]
NoRequest == [t \in Threads |-> NoStr]
NoInstance == [t \in Threads |-> 0]

vars == <<ext, lines, pc, step, cleaned, zs, ze, used, skip, items, rec, calls, seen, cls, raw, text, fix, paths, results, bpc, ocrs, EXTRACTORS, made, tpc, rtype, inst, got>>

\* lines[i] with the 0-based index of the source.
At(ls, i) == ls[i + 1]

\* ---- items ---------------------------------------------------------------
\* _build_item.  name is the line whose text is the item name; a leading
\* "Nx " is split off as the inferred quantity.  The fields g_* are history
\* fields of the model, not keys of the dict: g_name is the index of the name
\* line, g_lines the indices the pass marked used for this item, g_from the
\* index of the line the price was read from, g_pass the emitting pass,
\* g_mark whether the name contains one of '#', ':', '*' (of the lines that
\* pharmacy_column takes as names only the time lines do).
BuildItem(name, price, sku, qty, unit_price, source_idx, g_lines, g_from, g_pass) ==
    [ name       |-> IF name.k = "name" THEN name.nm ELSE name.txt,
      price      |-> price,
      qty        |-> IF qty # None THEN qty
                     ELSE IF name.k = "name" /\ name.q # None THEN name.q ELSE 1,
      unit_price |-> unit_price,
      sku        |-> sku,
      src        |-> source_idx,
      g_name     |-> source_idx,
      g_mark     |-> name.k = "time",
      g_lines    |-> g_lines,
      g_from     |-> g_from,
      g_pass     |-> g_pass ]

\* An optional index as a set: ({k} if k is not None else set()).
Opt(k) == IF k = None THEN {} ELSE {k}

\* ---- helpers shared by the passes ------------------------------------------
\* _next_free: the first index >= start that is not used, or None.
NextFree(start, n, u) ==
    IF \E i \in start..(n - 1) : i \notin u
    THEN CHOOSE i \in start..(n - 1) : i \notin u /\ \A j \in start..(i - 1) : j \in u
    ELSE None

\* The "while j < zone_end and j in used: j += 1" scan; the result may be
\* zone_end itself.
SkipUsed(start, end, u) ==
    IF \E i \in start..(end - 1) : i \notin u
    THEN CHOOSE i \in start..(end - 1) : i \notin u /\ \A j \in start..(i - 1) : j \in u
    ELSE IF start > end THEN start ELSE end

\* _maybe_barcode: <<sku, index>> of the next free line when it is a barcode.
MaybeBarcode(start, n, u, ls) ==
    LET k == NextFree(start, n, u) IN
    IF k # None /\ IsBarcode(At(ls, k)) THEN <<At(ls, k).txt, k>> ELSE <<NoStr, None>>

\* The qty line that may follow index m (None when m is None).
QtyAfter(m, n, u, ls) ==
    LET q == IF m = None THEN None ELSE NextFree(m + 1, n, u) IN
    IF q # None /\ ParseQtyLine(At(ls, q))[1] # None
    THEN <<ParseQtyLine(At(ls, q))[1], ParseQtyLine(At(ls, q))[2], q>>
    ELSE <<None, None, None>>

\* is_junk of _next_price.
NextPriceJunk(l) ==
    \/ MercuryJunk(l) \/ IsSeparator("pharmacy_column", l) \/ PaMode(l)
    \/ PaymentMethod(l) \/ Len(l.txt) <= 2 \/ ShortDigits(l)

\* _next_price: the next free price line, skipping junk; gives up at the
\* max_skip-th junk line.
RECURSIVE NextPriceFrom(_, _, _, _, _, _)
NextPriceFrom(idx, n, u, ls, skipped, max_skip) ==
    IF idx >= n THEN None
    ELSE IF idx \in u THEN NextPriceFrom(idx + 1, n, u, ls, skipped, max_skip)
    ELSE IF PriceOf("pharmacy_column", At(ls, idx)) # None THEN idx
    ELSE IF NextPriceJunk(At(ls, idx)) THEN
        (IF skipped + 1 >= max_skip THEN None
         ELSE NextPriceFrom(idx + 1, n, u, ls, skipped + 1, max_skip))
    ELSE None

NextPrice(start, n, u, ls, max_skip) == NextPriceFrom(start, n, u, ls, 0, max_skip)

\* _has_price_before: a free price line precedes the name (free barcodes and
\* used lines are stepped over).
RECURSIVE HasPriceBefore(_, _, _, _)
HasPriceBefore(ls, back, u, zone_start) ==
    IF back < zone_start THEN FALSE
    ELSE IF back \in u THEN HasPriceBefore(ls, back - 1, u, zone_start)
    ELSE IF IsBarcode(At(ls, back)) THEN HasPriceBefore(ls, back - 1, u, zone_start)
    ELSE PriceOf("pharmacy_column", At(ls, back)) # None

\* _bp_disc_price_in_zone: <<amount, index>> of the first discount line with
\* a positive amount, or <<None, None>>.
BpDiscPriceInZone(ls, start, end) ==
    LET hit == {i \in start..(end - 1) : At(ls, i).k = "disc" /\ At(ls, i).c > 0} IN
    IF hit = {} THEN <<None, None>>
    ELSE LET i == CHOOSE i \in hit : \A j \in hit : i <= j IN <<At(ls, i).c, i>>

\* ---- PharmacyColumnExtractor -------------------------------------------
PH == "pharmacy_column"

\* _HEADER_LINE of the backward zone scan.
HeaderLine(l) == l.k = "tin"

\* The backward scan from the start marker at idx: the lowest name line
\* reached before a header line, a separator or the distance check stops it.
RECURSIVE PhZoneBack(_, _, _, _, _)
PhZoneBack(ls, n, idx, back, zone_back) ==
    IF back < 0 THEN zone_back
    ELSE IF HeaderLine(At(ls, back)) \/ IsSeparator(PH, At(ls, back)) THEN zone_back
    ELSE LET zb == IF IsName(PH, At(ls, back), n, back) THEN back ELSE zone_back IN
         IF idx - back > 6 THEN zb ELSE PhZoneBack(ls, n, idx, back - 1, zb)

\* The zone loop of _items: [zs, ze, u] after the scan from idx.
RECURSIVE PhZone(_, _, _, _)
PhZone(ls, n, idx, z) ==
    IF idx >= n THEN z
    ELSE LET l == At(ls, idx)
             z1 == IF z.zs = 0 /\ (PaMode(l) \/ l.k = "php")
                   THEN [zs |-> PhZoneBack(ls, n, idx, idx - 1, idx),
                         ze |-> z.ze, u |-> z.u \cup {idx}]
                   ELSE z
         IN IF z1.zs > 0 /\ idx > z1.zs /\ ZoneEnd(PH, l)
            THEN [z1 EXCEPT !.ze = idx]
            ELSE PhZone(ls, n, idx + 1, z1)

\* _collect_financial_prices without the final "skip -= taxed_prices".
PhCollectFinancialPrices_KeepTaxed(ls) ==
    LET n == Len(ls)
        fin == {i \in 0..(n - 1) : Definitive(PH, At(ls, i)) \/ MercuryJunk(At(ls, i))}
        own == {At(ls, i).c : i \in {j \in fin : At(ls, j).k = "disc"}}
        near == {PriceOf(PH, At(ls, j)) : j \in {j \in 0..(n - 1) :
                     /\ (j + 1 \in fin \/ j - 1 \in fin)
                     /\ Pos(PriceOf(PH, At(ls, j)))}}
    IN own \cup near

\* _collect_financial_prices.
PhCollectFinancialPrices(ls) ==
    LET n == Len(ls)
        taxed == {PriceOf(PH, At(ls, i)) : i \in {j \in 0..(n - 1) :
                     IsTaxedPrice(At(ls, j)) /\ PriceOf(PH, At(ls, j)) # 0}}
        fin == {i \in 0..(n - 1) : Definitive(PH, At(ls, i)) \/ MercuryJunk(At(ls, i))}
        own == {At(ls, i).c : i \in {j \in fin : At(ls, j).k = "disc"}}
        near == {PriceOf(PH, At(ls, j)) : j \in {j \in 0..(n - 1) :
                     /\ (j + 1 \in fin \/ j - 1 \in fin)
                     /\ Pos(PriceOf(PH, At(ls, j)))}}
    IN (own \cup near) \ taxed

\* Pass B2: name -> barcode -> qty_line -> price, strictly adjacent.
RECURSIVE PhPassB2(_, _, _)
PhPassB2(cx, i, st) ==
    IF i >= cx.ze THEN st
    ELSE LET j == i + 1
             k == i + 2
             m == i + 3
             qu == ParseQtyLine(At(cx.ls, k))
             price == PriceOf(PH, At(cx.ls, m))
             hit == /\ i \notin st.u /\ IsName(PH, At(cx.ls, i), cx.n, i)
                    /\ j < cx.n /\ j \notin st.u /\ IsBarcode(At(cx.ls, j))
                    /\ k < cx.n /\ k \notin st.u /\ qu[1] # None
                    /\ m < cx.n /\ m \notin st.u
                    /\ Pos(price) /\ price \notin cx.skip
         IN PhPassB2(cx, i + 1,
               IF hit THEN [u  |-> st.u \cup {i, j, k, m},
                            it |-> Append(st.it, BuildItem(At(cx.ls, i), price,
                                      At(cx.ls, j).txt, qu[1], qu[2], i,
                                      {i, j, k, m}, m, "B2"))]
               ELSE st)

\* Pass A1b: name -> [junk] -> price.
RECURSIVE PhPassA1b(_, _, _)
PhPassA1b(cx, i, st) ==
    IF i >= cx.ze THEN st
    ELSE LET j == IF i \notin st.u /\ IsName(PH, At(cx.ls, i), cx.n, i)
                  THEN NextPrice(i + 1, cx.n, st.u, cx.ls, 3) ELSE None
             price == PriceOf(PH, At(cx.ls, j))
             junk == {k \in (i + 1)..(j - 1) : k \notin st.u}
             mb == MaybeBarcode(j + 1, cx.n, st.u, cx.ls)
             qa == QtyAfter(mb[2], cx.n, st.u, cx.ls)
             took == {i, j} \cup junk \cup Opt(mb[2]) \cup Opt(qa[3])
             hit == /\ j # None
                    /\ Pos(price) /\ price \notin cx.skip
                    /\ (IsTaxedPrice(At(cx.ls, j)) \/ mb[2] # None \/ junk # {})
         IN PhPassA1b(cx, i + 1,
               IF hit THEN [u  |-> st.u \cup took,
                            it |-> Append(st.it, BuildItem(At(cx.ls, i), price,
                                      mb[1], qa[1], qa[2], i, took, j, "A1b"))]
               ELSE st)

\* The index the "while ni >= zone_start and ni in used: ni -= 1" scan stops at.
RECURSIVE PrevFree(_, _, _)
PrevFree(ni, zone_start, u) ==
    IF ni >= zone_start /\ ni \in u THEN PrevFree(ni - 1, zone_start, u) ELSE ni

\* The backward guard of pass A1a: a name -> barcode pair sits 1-3 free
\* lines before the price.
RECURSIVE PhA1aGuard(_, _, _, _)
PhA1aGuard(cx, u, i, back) ==
    LET bi == i - back IN
    IF back > 3 \/ bi < cx.zs \/ bi \in u THEN FALSE
    ELSE IF IsBarcode(At(cx.ls, bi)) THEN
        LET ni == PrevFree(bi - 1, cx.zs, u) IN
        ni >= cx.zs /\ IsName(PH, At(cx.ls, ni), cx.n, ni)
    ELSE IF At(cx.ls, bi).k = "qty" THEN PhA1aGuard(cx, u, i, back + 1)
    ELSE IF ~MercuryJunk(At(cx.ls, bi)) /\ ~IsSeparator(PH, At(cx.ls, bi)) THEN FALSE
    ELSE PhA1aGuard(cx, u, i, back + 1)

\* Pass A1a: taxed price -> name (-> qty line) (-> barcode).
RECURSIVE PhPassA1a(_, _, _)
PhPassA1a(cx, i, st) ==
    IF i >= cx.ze THEN st
    ELSE LET price == PriceOf(PH, At(cx.ls, i))
             here == /\ i \notin st.u /\ IsTaxedPrice(At(cx.ls, i))
                     /\ Pos(price) /\ price \notin cx.skip
                     /\ ~PhA1aGuard(cx, st.u, i, 1)
             j == IF here THEN NextFree(i + 1, cx.n, st.u) ELSE None
             qa == QtyAfter(j, cx.n, st.u, cx.ls)
             mb == MaybeBarcode(IF qa[3] # None THEN qa[3] + 1 ELSE j + 1,
                                cx.n, st.u, cx.ls)
             took == {i, j} \cup Opt(qa[3]) \cup Opt(mb[2])
             hit == j # None /\ IsName(PH, At(cx.ls, j), cx.n, j)
         IN PhPassA1a(cx, i + 1,
               IF hit THEN [u  |-> st.u \cup took,
                            it |-> Append(st.it, BuildItem(At(cx.ls, j), price,
                                      mb[1], qa[1], qa[2], j, took, i, "A1a"))]
               ELSE st)

\* Pass A2: untaxed price -> name (-> barcode), unless a free item price
\* follows the name.
RECURSIVE PhPassA2(_, _, _)
PhPassA2(cx, i, st) ==
    IF i >= cx.ze THEN st
    ELSE LET price == PriceOf(PH, At(cx.ls, i))
             here == /\ i \notin st.u /\ ~IsTaxedPrice(At(cx.ls, i))
                     /\ Pos(price) /\ price \notin cx.skip
             j == IF here THEN NextFree(i + 1, cx.n, st.u) ELSE None
             k_after == NextFree(j + 1, cx.n, st.u)
             np == IF k_after = None THEN None ELSE PriceOf(PH, At(cx.ls, k_after))
             mb == MaybeBarcode(j + 1, cx.n, st.u, cx.ls)
             took == {i, j} \cup Opt(mb[2])
             hit == /\ j # None /\ IsName(PH, At(cx.ls, j), cx.n, j)
                    /\ ~(Pos(np) /\ np \notin cx.skip)
         IN PhPassA2(cx, i + 1,
               IF hit THEN [u  |-> st.u \cup took,
                            it |-> Append(st.it, BuildItem(At(cx.ls, j), price,
                                      mb[1], None, None, j, took, i, "A2"))]
               ELSE st)

\* _TOTAL_LBL of pass B.
TotalLbl(l) == l.k = "kw" /\ l.txt \in {"TOTAL", "SUBTOTAL", "SUB TOTAL", "GRAND TOTAL"}

\* The forward scan of pass B from the name: the barcode index bc (or None),
\* the junk and qty lines stepped over, and the last qty line seen.
RECURSIVE PhScanB(_, _, _, _, _)
PhScanB(cx, u, scan, limit, acc) ==
    IF scan >= limit \/ scan \in u THEN acc
    ELSE LET l == At(cx.ls, scan)
             qu == ParseQtyLine(l)
         IN IF IsBarcode(l) THEN [acc EXCEPT !.bc = scan]
            ELSE IF qu[1] # None THEN
                PhScanB(cx, u, scan + 1, limit,
                        [bc |-> None, junk |-> acc.junk \cup {scan},
                         q |-> qu[1], unit |-> qu[2], qidx |-> scan])
            ELSE IF \/ MercuryJunk(l) \/ IsSeparator(PH, l)
                    \/ ShortDigits(l) \/ Len(l.txt) <= 2 THEN
                PhScanB(cx, u, scan + 1, limit, [acc EXCEPT !.junk = acc.junk \cup {scan}])
            ELSE acc

\* Pass B: name -> [junk / qty_line] -> barcode -> price.
RECURSIVE PhPassB(_, _, _)
PhPassB(cx, i, st) ==
    IF i >= cx.ze THEN st
    ELSE LET here == /\ i \notin st.u /\ IsName(PH, At(cx.ls, i), cx.n, i)
                     /\ ~HasPriceBefore(cx.ls, i - 1, st.u, cx.zs)
             sc == PhScanB(cx, st.u, i + 1, IF i + 6 < cx.n THEN i + 6 ELSE cx.n,
                           [bc |-> None, junk |-> {}, q |-> None, unit |-> None,
                            qidx |-> None])
             k == sc.bc + 1
             price == IF k < cx.n /\ k \notin st.u THEN PriceOf(PH, At(cx.ls, k)) ELSE None
             price_is_total == price # None /\ k + 1 < cx.n /\ TotalLbl(At(cx.ls, k + 1))
             rec0 == BpDiscPriceInZone(cx.ls, 0, cx.n)
             sku == At(cx.ls, sc.bc).txt
             nm == At(cx.ls, i)
             out ==
                IF ~here \/ sc.bc = None THEN <<>>
                ELSE IF price_is_total /\ sc.q # None /\ sc.unit # None THEN
                    <<BuildItem(nm, sc.q * sc.unit, sku, sc.q, sc.unit, i,
                                {i, sc.bc} \cup sc.junk, sc.qidx, "B1")>>
                ELSE IF price_is_total /\ sc.q = None /\ Pos(price) /\ price \notin cx.skip THEN
                    <<BuildItem(nm, price, sku, None, None, i,
                                {i, sc.bc, k} \cup sc.junk, k, "B2t")>>
                ELSE IF Pos(price) /\ price \notin cx.skip /\ ~price_is_total THEN
                    <<BuildItem(nm, price, sku, sc.q, sc.unit, i,
                                {i, sc.bc, k} \cup sc.junk, k, "B3")>>
                ELSE IF price = None /\ sc.junk # {} /\ Pos(rec0[1]) THEN
                    <<BuildItem(nm, rec0[1], sku, None, None, i,
                                {i, sc.bc} \cup sc.junk, rec0[2], "B4")>>
                ELSE <<>>
         IN PhPassB(cx, i + 1,
               IF out # <<>> THEN [u |-> st.u \cup out[1].g_lines, it |-> st.it \o out]
               ELSE st)

\* Pass C: name -> price (-> barcode) (-> qty line).  _is_name is called
\* without the position arguments here.
RECURSIVE PhPassC(_, _, _)
PhPassC(cx, i, st) ==
    IF i >= cx.ze THEN st
    ELSE LET j == IF i \notin st.u /\ IsName(PH, At(cx.ls, i), 0, 0)
                  THEN NextFree(i + 1, cx.n, st.u) ELSE None
             price == PriceOf(PH, At(cx.ls, j))
             mb == MaybeBarcode(j + 1, cx.n, st.u, cx.ls)
             qa == QtyAfter(mb[2], cx.n, st.u, cx.ls)
             took == {i, j} \cup Opt(mb[2]) \cup Opt(qa[3])
             hit == j # None /\ Pos(price)
         IN PhPassC(cx, i + 1,
               IF hit THEN [u  |-> st.u \cup took,
                            it |-> Append(st.it, BuildItem(At(cx.ls, i), price,
                                      mb[1], qa[1], qa[2], i, took, j, "C"))]
               ELSE st)

\* Pass D: inline "NAME   PRICE" (-> barcode).
RECURSIVE PhPassD(_, _, _)
PhPassD(cx, i, st) ==
    IF i >= cx.ze THEN st
    ELSE LET l == At(cx.ls, i)
             mb == MaybeBarcode(i + 1, cx.n, st.u, cx.ls)
             took == {i} \cup Opt(mb[2])
             hit == /\ i \notin st.u /\ IsPriceInline(l)
                    /\ l.c > 0 /\ l.c \notin cx.skip
                    /\ IsName(PH, InlineName(l), cx.n, i)
         IN PhPassD(cx, i + 1,
               IF hit THEN [u  |-> st.u \cup took,
                            it |-> Append(st.it, BuildItem(InlineName(l), l.c,
                                      mb[1], None, None, i, took, i, "D"))]
               ELSE st)

\* ---- sort, strip, orphan, cap ---------------------------------------------
\* list.sort / sorted are stable.  s is a sequence of <<key, item>> pairs:
\* the last pair is inserted after the pairs whose key is <= its own.
RECURSIVE SortPairs(_)
SortPairs(s) ==
    IF s = <<>> THEN <<>>
    ELSE LET rest == SortPairs(SubSeq(s, 1, Len(s) - 1))
             x == s[Len(s)]
             p == Cardinality({i \in 1..Len(rest) : rest[i][1] <= x[1]})
         IN SubSeq(rest, 1, p) \o <<x>> \o SubSeq(rest, p + 1, Len(rest))

\* items.sort(key=lambda x: x.get("_src", 0)); item.pop("_src") for each.
SortAndStrip(its) ==
    LET s == SortPairs([i \in 1..Len(its) |->
                 <<IF its[i].src = None THEN 0 ELSE its[i].src, its[i]>>])
    IN [i \in 1..Len(s) |-> [s[i][2] EXCEPT !.src = None]]

\* _infer_orphan: the unclaimed name -> barcode pair found by the scan from
\* ii ([name, bc], name = None when there is none, many = TRUE when a second
\* pair was met).
RECURSIVE PhOrphanScan(_, _, _, _)
PhOrphanScan(cx, u, ii, acc) ==
    IF ii >= cx.ze \/ acc.many THEN acc
    ELSE LET jj == SkipUsed(ii + 1, cx.ze, u)
             pair == /\ ii \notin u /\ IsName(PH, At(cx.ls, ii), cx.n, ii)
                     /\ jj < cx.ze /\ IsBarcode(At(cx.ls, jj))
         IN PhOrphanScan(cx, u, ii + 1,
               IF ~pair THEN acc
               ELSE IF acc.name # None THEN [acc EXCEPT !.many = TRUE]
               ELSE [name |-> ii, bc |-> jj, many |-> FALSE])

RECURSIVE SumPrices(_)
SumPrices(its) == IF its = <<>> THEN 0 ELSE its[1].price + SumPrices(Tail(its))

\* _infer_orphan: with exactly one orphan pair, the smallest untaxed price
\* line >= the detected sum is taken as the receipt total and the difference
\* becomes the orphan's price.
PhInferOrphan(its, cx, u) ==
    LET o == PhOrphanScan(cx, u, cx.zs, [name |-> None, bc |-> None, many |-> FALSE])
        detected_sum == SumPrices(its)
        cand == {i \in 0..(cx.n - 1) :
                    /\ PriceOf(PH, At(cx.ls, i)) # None
                    /\ PriceOf(PH, At(cx.ls, i)) # 0
                    /\ PriceOf(PH, At(cx.ls, i)) >= detected_sum
                    /\ ~IsTaxedPrice(At(cx.ls, i))}
        tl == CHOOSE i \in cand : \A j \in cand :
                 \/ PriceOf(PH, At(cx.ls, i)) < PriceOf(PH, At(cx.ls, j))
                 \/ PriceOf(PH, At(cx.ls, i)) = PriceOf(PH, At(cx.ls, j)) /\ i <= j
        receipt_total == PriceOf(PH, At(cx.ls, tl))
        inferred == receipt_total - detected_sum
    IN IF o.many \/ o.name = None \/ cand = {} THEN its
       ELSE IF 0 < inferred /\ inferred < receipt_total
       THEN Append(its, BuildItem(At(cx.ls, o.name), inferred, At(cx.ls, o.bc).txt,
                                  None, None, o.name, {o.name, o.bc}, tl, "orphan"))
       ELSE its

\* _stated_item_count of pharmacy_column and supermarket: the N of the first
\* "** N item(s) **" line, or None.
StatedItemCount(ls) ==
    LET hit == {i \in 1..Len(ls) : ls[i].k = "count"} IN
    IF hit = {} THEN None ELSE ls[CHOOSE i \in hit : \A j \in hit : i <= j].q

\* priority() of _cap_to_stated, per extractor class.
CapPriority(e, item) ==
    IF e = PH
    THEN (IF item.sku = NoStr THEN 10 ELSE 0) + (IF Len(item.name) <= 6 THEN 5 ELSE 0)
         + (IF item.g_mark THEN 8 ELSE 0)
    ELSE (IF item.sku = NoStr THEN 5 ELSE 0) + (IF Len(item.name) <= 4 THEN 3 ELSE 0)

\* _cap_to_stated: sorted(items, key=priority, reverse=True)[:stated].
CapToStated(e, its, stated) ==
    LET s == SortPairs([i \in 1..Len(its) |-> <<0 - CapPriority(e, its[i]), its[i]>>])
    IN [i \in 1..stated |-> s[i][2]]

\* The tail of _items shared by pharmacy_column and supermarket:
\* "if stated and len(items) > stated".
Capped(e, its, ls) ==
    LET stated == StatedItemCount(ls) IN
    IF Pos(stated) /\ Len(its) > stated THEN CapToStated(e, its, stated) ELSE its

\* ---- SupermarketExtractor ------------------------------------------------
SM == "supermarket"

\* The zone loop of SupermarketExtractor._items.
RECURSIVE SmZone(_, _, _, _)
SmZone(ls, n, idx, z) ==
    IF idx >= n THEN z
    ELSE IF z.zs = 0 /\ At(ls, idx).k = "php"
         THEN SmZone(ls, n, idx + 1, [zs |-> idx + 1, ze |-> z.ze, u |-> z.u \cup {idx}])
    ELSE IF idx >= z.zs /\ ZoneEnd(SM, At(ls, idx)) THEN [z EXCEPT !.ze = idx]
    ELSE SmZone(ls, n, idx + 1, z)

\* _collect_skip_prices of supermarket, fast_food, department_store and the
\* module function of inline_price / generic: the price on the line after a
\* definitive financial keyword.
CollectSkipPrices(e, ls) ==
    {PriceOf(e, ls[i + 1]) : i \in {j \in 1..(Len(ls) - 1) :
        /\ Definitive(e, ls[j])
        /\ PriceOf(e, ls[j + 1]) # None
        /\ PriceOf(e, ls[j + 1]) # 0
        /\ (e \in {"fast_food", "department_store"} \/ PriceOf(e, ls[j + 1]) > 0)}}

\* Pass A: inline "NAME   N @ P" followed by a price line, else inline
\* "NAME   PRICE" (-> qty line) (-> barcode).
RECURSIVE SmPassA(_, _, _)
SmPassA(cx, i, st) ==
    IF i >= cx.ze THEN st
    ELSE LET l == At(cx.ls, i)
             j == NextFree(i + 1, cx.n, st.u)
             pj == PriceOf(SM, At(cx.ls, j))
             mbq == MaybeBarcode(j + 1, cx.n, st.u, cx.ls)
             hitq == /\ i \notin st.u /\ l.k = "nameqty"
                     /\ IsName(SM, Name(l.nm), cx.n, i)
                     /\ j # None /\ Pos(pj) /\ pj \notin cx.skip
             qa == QtyAfter(i, cx.n, st.u, cx.ls)
             mb == MaybeBarcode(IF qa[3] # None THEN qa[3] + 1 ELSE i + 1,
                                cx.n, st.u, cx.ls)
             hit == /\ i \notin st.u /\ IsPriceInline(l)
                    /\ l.c > 0 /\ l.c \notin cx.skip
                    /\ IsName(SM, InlineName(l), cx.n, i)
             out == IF hitq THEN
                        <<BuildItem(Name(l.nm), pj, mbq[1], l.q, l.c, i,
                                    {i, j} \cup Opt(mbq[2]), j, "A")>>
                    ELSE IF hit THEN
                        <<BuildItem(InlineName(l), l.c, mb[1], qa[1], qa[2], i,
                                    {i} \cup Opt(qa[3]) \cup Opt(mb[2]), i, "A")>>
                    ELSE <<>>
         IN SmPassA(cx, i + 1,
               IF out # <<>> THEN [u |-> st.u \cup out[1].g_lines, it |-> st.it \o out]
               ELSE st)

\* Pass A2: name -> qty_line -> price (-> barcode).
RECURSIVE SmPassA2(_, _, _)
SmPassA2(cx, i, st) ==
    IF i >= cx.ze THEN st
    ELSE LET j == IF i \notin st.u /\ IsName(SM, At(cx.ls, i), cx.n, i)
                  THEN NextFree(i + 1, cx.n, st.u) ELSE None
             qu == ParseQtyLine(At(cx.ls, j))
             k == NextFree(j + 1, cx.n, st.u)
             price == PriceOf(SM, At(cx.ls, k))
             mb == MaybeBarcode(k + 1, cx.n, st.u, cx.ls)
             took == {i, j, k} \cup Opt(mb[2])
             hit == /\ j # None /\ qu[1] # None /\ k # None
                    /\ Pos(price) /\ price \notin cx.skip
         IN SmPassA2(cx, i + 1,
               IF hit THEN [u  |-> st.u \cup took,
                            it |-> Append(st.it, BuildItem(At(cx.ls, i), price,
                                      mb[1], qu[1], qu[2], i, took, k, "A2"))]
               ELSE st)

\* Pass B: name -> price (-> qty line) (-> barcode).
RECURSIVE SmPassB(_, _, _)
SmPassB(cx, i, st) ==
    IF i >= cx.ze THEN st
    ELSE LET j == IF i \notin st.u /\ IsName(SM, At(cx.ls, i), cx.n, i)
                  THEN SkipUsed(i + 1, cx.ze, st.u) ELSE cx.ze
             price == PriceOf(SM, At(cx.ls, j))
             qa0 == QtyAfter(j, cx.n, st.u, cx.ls)
             qa == IF qa0[3] # None /\ qa0[3] < cx.ze THEN qa0 ELSE <<None, None, None>>
             mb == MaybeBarcode(IF qa[3] # None THEN qa[3] + 1 ELSE j + 1,
                                cx.n, st.u, cx.ls)
             took == {i, j} \cup Opt(qa[3]) \cup Opt(mb[2])
             hit == j < cx.ze /\ Pos(price) /\ price \notin cx.skip
         IN SmPassB(cx, i + 1,
               IF hit THEN [u  |-> st.u \cup took,
                            it |-> Append(st.it, BuildItem(At(cx.ls, i), price,
                                      mb[1], qa[1], qa[2], i, took, j, "B"))]
               ELSE st)

\* Pass C: name -> barcode -> price, strictly adjacent.
RECURSIVE SmPassC(_, _, _)
SmPassC(cx, i, st) ==
    IF i >= cx.ze THEN st
    ELSE LET j == i + 1
             k == i + 2
             price == PriceOf(SM, At(cx.ls, k))
             hit == /\ i \notin st.u /\ IsName(SM, At(cx.ls, i), cx.n, i)
                    /\ j < cx.n /\ j \notin st.u /\ IsBarcode(At(cx.ls, j))
                    /\ k < cx.n /\ k \notin st.u
                    /\ Pos(price) /\ price \notin cx.skip
         IN SmPassC(cx, i + 1,
               IF hit THEN [u  |-> st.u \cup {i, j, k},
                            it |-> Append(st.it, BuildItem(At(cx.ls, i), price,
                                      At(cx.ls, j).txt, None, None, i,
                                      {i, j, k}, k, "C"))]
               ELSE st)

\* ---- FastFood, DepartmentStore, InlinePrice, Generic ----------------------
\* The zone loop of FastFoodExtractor._items: every order-header line is
\* marked used and moves the zone start behind it.
RECURSIVE FfZone(_, _, _, _)
FfZone(ls, n, idx, z) ==
    IF idx >= n THEN z
    ELSE IF At(ls, idx).k = "hdr"
         THEN FfZone(ls, n, idx + 1, [zs |-> idx + 1, ze |-> z.ze, u |-> z.u \cup {idx}])
    ELSE IF idx >= z.zs /\ ZoneEnd("fast_food", At(ls, idx)) THEN [z EXCEPT !.ze = idx]
    ELSE FfZone(ls, n, idx + 1, z)

\* zone_end of department_store, inline_price and generic: the first
\* zone-end keyword line, else n.
FirstZoneEnd(e, ls) ==
    LET hit == {i \in 0..(Len(ls) - 1) : ZoneEnd(e, At(ls, i))} IN
    IF hit = {} THEN Len(ls) ELSE CHOOSE i \in hit : \A j \in hit : i <= j

\* The "nxt = i + 1" barcode probe of InlinePriceExtractor.
AdjacentBarcode(nxt, n, u, ls) ==
    IF nxt < n /\ nxt \notin u /\ IsBarcode(At(ls, nxt))
    THEN <<At(ls, nxt).txt, nxt>> ELSE <<NoStr, None>>

\* The inline pass of fast_food (A), department_store (A and B in one loop),
\* inline_price (A) and generic: the quantity form of the class first, then
\* the plain "NAME   PRICE" form.
RECURSIVE InlinePass(_, _, _, _)
InlinePass(e, cx, i, st) ==
    IF i >= cx.ze THEN st
    ELSE LET l == At(cx.ls, i)
             okp == l.c > 0 /\ l.c \notin cx.skip
             hitq == /\ i \notin st.u /\ okp
                     /\ \/ e = "fast_food" /\ l.k = "qinline"
                        \/ e = "department_store" /\ l.k = "inlineq"
                     /\ IsName(e, Name(l.nm), 0, 0)
             mb == IF e = "inline_price"
                   THEN AdjacentBarcode(i + 1, cx.n, st.u, cx.ls) ELSE <<NoStr, None>>
             hit == /\ i \notin st.u /\ IsPriceInline(l) /\ okp
                    /\ (e = "generic" => Len(InlineName(l).txt) >= 3 /\ l.k # "qinline")
                    /\ IsName(e, InlineName(l), 0, 0)
             out == IF hitq THEN
                        <<BuildItem(Name(l.nm), l.c, NoStr, l.q, None, i, {i}, i, "A")>>
                    ELSE IF hit THEN
                        <<BuildItem(InlineName(l), l.c, mb[1], None, None, i,
                                    {i} \cup Opt(mb[2]), i, "A")>>
                    ELSE <<>>
         IN InlinePass(e, cx, i + 1,
               IF out # <<>> THEN [u |-> st.u \cup out[1].g_lines, it |-> st.it \o out]
               ELSE st)

\* The two-line pass of fast_food (B), department_store (C) and
\* inline_price (B): name -> price inside the zone.
RECURSIVE TwoLinePass(_, _, _, _)
TwoLinePass(e, cx, i, st) ==
    IF i >= cx.ze THEN st
    ELSE LET j == IF i \notin st.u /\ IsName(e, At(cx.ls, i), 0, 0)
                  THEN SkipUsed(i + 1, cx.ze, st.u) ELSE cx.ze
             price == PriceOf(e, At(cx.ls, j))
             mb == IF e = "inline_price"
                   THEN AdjacentBarcode(j + 1, cx.n, st.u, cx.ls) ELSE <<NoStr, None>>
             took == {i, j} \cup Opt(mb[2])
             hit == j < cx.ze /\ Pos(price) /\ price \notin cx.skip
         IN TwoLinePass(e, cx, i + 1,
               IF hit THEN [u  |-> st.u \cup took,
                            it |-> Append(st.it, BuildItem(At(cx.ls, i), price,
                                      mb[1], None, None, i, took, j, "B"))]
               ELSE st)

\* ---- shared field extractors (BaseExtractor) -----------------------------
\* The lowest index in a non-empty set of indices.
MinOf(S) == CHOOSE i \in S : \A j \in S : i <= j

\* _store_name: the first of the first 8 lines that is at least 3 long, not
\* all digits, not a separator and does not start like a price.
StoreNameLine(l) ==
    /\ Len(l.txt) >= 3
    /\ l.k \notin {"digits", "sep", "count"}
    /\ ~(l.k = "price" /\ l.c # None)
StoreName(ls) ==
    LET hit == {i \in 1..Len(ls) : i <= 8 /\ StoreNameLine(ls[i])} IN
    IF hit = {} THEN NoStr ELSE ls[MinOf(hit)].txt

\* The value lines of kind "inv", "date", "time" and "tin" carry in nm.
FirstOfKind(ls, kind) ==
    LET hit == {i \in 1..Len(ls) : ls[i].k = kind} IN
    IF hit = {} THEN NoStr ELSE ls[MinOf(hit)].nm

\* _invoice: the genuine invoice patterns on every line first, the TXN
\* pattern only as a fallback.
Invoice(ls) ==
    IF FirstOfKind(ls, "inv") # NoStr THEN FirstOfKind(ls, "inv")
    ELSE LET low == {i \in 1..Len(ls) : ls[i].k = "txn" /\ Len(ls[i].x) >= 4} IN
         IF low = {} THEN NoStr ELSE ls[MinOf(low)].x

\* _valid of _date on the first high / medium priority match of the line:
\* the line has one and "-" does not follow it.
DateValid(l) == l.k \in {"date", "range", "txn"} /\ l.nm # NoStr /\ l.suf # "-"

\* _txn_date: the first MM-DD-YY candidate of a TXN line; what follows the
\* candidate is not looked at.
TxnDate(l) == IF l.k = "txn" THEN l.nm ELSE NoStr

\* _date: the round that finds the date and the line it finds it in.
\* Round 1: lines of at most 25 characters; round 2: any line; round 3
\* (month-year and ordinal forms) finds nothing on the line shapes above;
\* round 4: the day/month pattern on lines with a date context word;
\* round 5: TXN lines.  Round 0: no date.
DateFrom(ls) ==
    LET r1 == {i \in 1..Len(ls) : Len(ls[i].txt) <= 25 /\ DateValid(ls[i])}
        r2 == {i \in 1..Len(ls) : DateValid(ls[i])}
        r4 == {i \in 1..Len(ls) : ls[i].k = "date" /\ ls[i].x # NoStr}
        r5 == {i \in 1..Len(ls) : TxnDate(ls[i]) # NoStr}
    IN IF r1 # {} THEN [round |-> 1, i |-> MinOf(r1)]
       ELSE IF r2 # {} THEN [round |-> 2, i |-> MinOf(r2)]
       ELSE IF r4 # {} THEN [round |-> 4, i |-> MinOf(r4)]
       ELSE IF r5 # {} THEN [round |-> 5, i |-> MinOf(r5)]
       ELSE [round |-> 0, i |-> 0]

\* _date: the token the round returns.
Date(ls) ==
    LET d == DateFrom(ls) IN
    CASE d.round \in {1, 2} -> ls[d.i].nm
      [] d.round = 4        -> ls[d.i].x
      [] d.round = 5        -> TxnDate(ls[d.i])
      [] OTHER              -> NoStr

\* What _TIME_PATTERNS find in a line.  The first pattern ends in a literal
\* backslash followed by "b" (r'...\\b' in a raw string), so it matches no line
\* of the shapes above; the other two need the A / P / AM / PM suffix and
\* match the last two number groups before it: HH:MM, or MM:SS when the line
\* has seconds (":" precedes the match, which is not a digit).
TimeOf(l) ==
    IF l.k # "time" \/ l.suf = "" THEN NoStr
    ELSE IF l.y = "" THEN l.nm \o ":" \o l.x \o l.suf
    ELSE l.x \o ":" \o l.y \o l.suf

\* _time: the first line, in line order, in which a pattern finds a time.
Time(ls) ==
    LET hit == {i \in 1..Len(ls) : TimeOf(ls[i]) # NoStr} IN
    IF hit = {} THEN NoStr ELSE TimeOf(ls[MinOf(hit)])

Tin(ls) == FirstOfKind(ls, "tin")

\* The index in _TOTAL_PATTERNS of the first pattern that finds an amount in
\* the line (0 when none does).  The patterns are searched inside the line: the
\* plain TOTAL pattern, (?<!\w)TOTAL, also finds the TOTAL of "SUB TOTAL",
\* which a space precedes, but not that of "SUBTOTAL".
TotalPattern(l) ==
    IF l.k # "kwinline" THEN 0
    ELSE CASE l.nm = "GRAND TOTAL"      -> 1
           [] l.nm = "TOTAL AMOUNT DUE" -> 2
           [] l.nm = "AMOUNT DUE"       -> 3
           [] l.nm = "TOTAL PAYMENT"    -> 4
           [] l.nm = "TOTAL SALES"      -> 5
           [] l.nm = "NET AMOUNT"       -> 6
           [] l.nm = "NET SALES"        -> 7
           [] l.nm = "TOTAL"            -> 8
           [] l.nm = "SUB TOTAL"        -> 8
           [] OTHER                     -> 0
\* The index in _TOTAL_KW_PRIORITY of the pattern the keyword line matches.
TotalKw(l) ==
    IF l.k # "kw" THEN 0
    ELSE CASE l.txt = "GRAND TOTAL"      -> 1
           [] l.txt = "TOTAL AMOUNT DUE" -> 2
           [] l.txt = "TOTAL AMOUNT"     -> 3
           [] l.txt = "TOTAL SALES"      -> 4
           [] l.txt = "NET AMOUNT"       -> 5
           [] l.txt = "AMOUNT DUE"       -> 6
           [] l.txt = "TOTAL"            -> 7
           [] l.txt = "TOTAL PAYMENT"    -> 8
           [] OTHER                      -> 0

\* "for pat in patterns: for line in lines": the first index, in pattern
\* order and then line order, of the indices in hit; rank[i] is the pattern of index i.
FirstByPattern(hit, rank) ==
    CHOOSE i \in hit : \A j \in hit : rank[i] < rank[j] \/ (rank[i] = rank[j] /\ i <= j)

\* _total: which line supplies the amount.  kind is "inline" (i is the line
\* a _TOTAL_PATTERNS pattern found the amount in), "split" (i is the keyword
\* line, the amount is on line i + 1, read with the _price_of of the class
\* the call runs on) or "none".
TotalLine(e, ls) ==
    LET inl == {i \in 1..Len(ls) : TotalPattern(ls[i]) # 0}
        rki == [i \in inl |-> TotalPattern(ls[i])]
        spl == {i \in 1..(Len(ls) - 1) :
                   TotalKw(ls[i]) # 0 /\ Pos(PriceOf(e, ls[i + 1]))}
        rks == [i \in spl |-> TotalKw(ls[i])]
    IN IF inl # {} THEN [kind |-> "inline", i |-> FirstByPattern(inl, rki)]
       ELSE IF spl # {} THEN [kind |-> "split", i |-> FirstByPattern(spl, rks)]
       ELSE [kind |-> "none", i |-> 0]

\* _total: the inline form first, then keyword + next-line price.  The
\* amount stands for the formatted string: the formatting is the same
\* injective function of the amount in every class.
Total(e, ls) ==
    LET t == TotalLine(e, ls) IN
    IF t.kind = "inline" THEN ls[t.i].c
    ELSE IF t.kind = "split" THEN PriceOf(e, ls[t.i + 1])
    ELSE None

\* _VAT_PATTERNS on a line whose label is a VAT label, and _VAT_KW.
VatInline(l) == l.k = "kwinline" /\ l.nm \in {"VAT", "VAT - 12%", "OUTPUT TAX"} /\ l.c > 0
VatKw(l) == l.k = "kw" /\ l.txt \in {"VAT", "VAT - 12%", "VAT AMOUNT", "OUTPUT TAX"}

\* _vat: inline, then keyword + next-line price (again self._price_of).
Vat(e, ls) ==
    LET inl == {i \in 1..Len(ls) : VatInline(ls[i])}
        spl == {i \in 1..(Len(ls) - 1) : VatKw(ls[i]) /\ Pos(PriceOf(e, ls[i + 1]))}
    IN IF inl # {} THEN ls[MinOf(inl)].c
       ELSE IF spl # {} THEN PriceOf(e, ls[MinOf(spl) + 1])
       ELSE None

\* _confidence_score without the deduction for a missing invoice number.
ConfidenceScore_NoInvoice(store_name, invoice, date, total, its) ==
    LET score == 100 - (IF store_name = NoStr THEN 15 ELSE 0)
                     - (IF total = None THEN 25 ELSE 0)
                     - (IF date = NoStr THEN 10 ELSE 0)
                     - (IF its = <<>> THEN 20 ELSE 0)
    IN IF score < 0 THEN 0 ELSE score

\* _confidence_score, in hundredths.
ConfidenceScore(store_name, invoice, date, total, its) ==
    LET score == 100 - (IF store_name = NoStr THEN 15 ELSE 0)
                     - (IF total = None THEN 25 ELSE 0)
                     - (IF date = NoStr THEN 10 ELSE 0)
                     - (IF its = <<>> THEN 20 ELSE 0)
                     - (IF invoice = NoStr THEN 5 ELSE 0)
    IN IF score < 0 THEN 0 ELSE score

RECURSIVE SumQty(_)
SumQty(its) ==
    IF its = <<>> THEN 0
    ELSE (IF Head(its).qty = None \/ Head(its).qty = 0 THEN 1 ELSE Head(its).qty)
         + SumQty(Tail(its))

\* _empty.
Empty ==
    [ store_name |-> NoStr, invoice_number |-> NoStr, date |-> NoStr, time |-> NoStr,
      total_amount |-> None, vat_amount |-> None, tin |-> NoStr,
      item_count |-> 0, has_vat |-> FALSE, items |-> <<>>,
      extraction_confidence |-> 0 ]

\* The dict extract() builds from the fields and the items.
Result(e, ls, its) ==
    [ store_name |-> StoreName(ls), invoice_number |-> Invoice(ls),
      date |-> Date(ls), time |-> Time(ls),
      total_amount |-> Total(e, ls), vat_amount |-> Vat(e, ls), tin |-> Tin(ls),
      item_count |-> SumQty(its), has_vat |-> Vat(e, ls) # None, items |-> its,
      extraction_confidence |->
          ConfidenceScore(StoreName(ls), Invoice(ls), Date(ls), Total(e, ls), its) ]

\* ---- inputs -----------------------------------------------------------------
\* Longest line sequence of the exhaustive part of the input set.
MaxLen == 4

Alphabet ==
    { Name("BIOGESIC"), Digits("480000000001", 12), Price("100.00", 10000, ""),
      Price("50.00T", 5000, "T"), Kw("CHANGE"), Pa("PA#9"), Inline("NEOZEP  69.00", "NEOZEP", 6900) }

RECURSIVE SeqsUpTo(_, _)
SeqsUpTo(S, k) ==
    IF k = 0 THEN {<<>>}
    ELSE LET shorter == SeqsUpTo(S, k - 1) IN
         shorter \cup {Append(s, x) : s \in {t \in shorter : Len(t) = k - 1}, x \in S}

\* ---- extract() as steps ---------------------------------------------------
\* The passes of _items of each class, in the order the source runs them.
PassOrder(e) ==
    CASE e = PH                 -> <<"B2", "A1b", "A1a", "A2", "B", "C", "D">>
      [] e = SM                 -> <<"A", "A2", "B", "C">>
      [] e = "fast_food"        -> <<"A", "B">>
      [] e = "department_store" -> <<"A", "C">>
      [] e = "inline_price"     -> <<"A", "B">>
      [] e = "generic"          -> <<"A">>

\* cleaned = [l.strip() for l in lines if l.strip()].
Clean(ls) == SelectSeq(ls, LAMBDA l : l.k # "blank")

\* The context the passes read.
Cx == [ls |-> cleaned, n |-> Len(cleaned), zs |-> zs, ze |-> ze, skip |-> skip]
St == [u |-> used, it |-> items]

\* extract() without the two early returns of _empty().
Call_NoEmptyReturn ==
    /\ pc = "idle"
    /\ cleaned' = Clean(lines)
    /\ rec' = rec
    /\ pc' = "zone"
    /\ UNCHANGED <<ext, lines, step, zs, ze, used, skip, items, calls, seen, cls, raw, text, fix, paths, results, bpc, ocrs, EXTRACTORS, made, tpc, rtype, inst, got>>

\* extract(), up to the call of _items: empty input returns _empty().
Call ==
    /\ pc = "idle"
    /\ cleaned' = Clean(lines)
    /\ IF Clean(lines) = <<>>
       THEN rec' = Empty /\ pc' = "done"
       ELSE rec' = rec /\ pc' = "zone"
    /\ UNCHANGED <<ext, lines, step, zs, ze, used, skip, items, calls, seen, cls, raw, text, fix, paths, results, bpc, ocrs, EXTRACTORS, made, tpc, rtype, inst, got>>

\* The zone of each class: [zs, ze, u].
Zone(e, ls) ==
    LET n == Len(ls)
        z0 == [zs |-> 0, ze |-> n, u |-> {}]
    IN CASE e = PH          -> PhZone(ls, n, 0, z0)
         [] e = SM          -> SmZone(ls, n, 0, z0)
         [] e = "fast_food" -> FfZone(ls, n, 0, z0)
         [] OTHER           -> [z0 EXCEPT !.ze = FirstZoneEnd(e, ls)]

\* _items with used and items kept on the instance instead of created per call.
ItemsStart_OnInstance ==
    /\ pc = "zone"
    /\ LET z == Zone(ext, cleaned) IN
        /\ zs' = z.zs
        /\ ze' = z.ze
        /\ used' = used \cup z.u
    /\ skip' = IF ext = PH THEN PhCollectFinancialPrices(cleaned)
               ELSE CollectSkipPrices(ext, cleaned)
    /\ items' = items
    /\ step' = 1
    /\ pc' = "pass"
    /\ UNCHANGED <<ext, lines, cleaned, rec, calls, seen, cls, raw, text, fix, paths, results, bpc, ocrs, EXTRACTORS, made, tpc, rtype, inst, got>>

\* The head of _items: fresh used and items, the zone, skip_prices.
ItemsStart ==
    /\ pc = "zone"
    /\ LET z == Zone(ext, cleaned) IN
        /\ zs' = z.zs
        /\ ze' = z.ze
        /\ used' = z.u
    /\ skip' = IF ext = PH THEN PhCollectFinancialPrices(cleaned)
               ELSE CollectSkipPrices(ext, cleaned)
    /\ items' = <<>>
    /\ step' = 1
    /\ pc' = "pass"
    /\ UNCHANGED <<ext, lines, cleaned, rec, calls, seen, cls, raw, text, fix, paths, results, bpc, ocrs, EXTRACTORS, made, tpc, rtype, inst, got>>

\* What pass p of class e does to (used, items).
RunPass(e, p, cx, st) ==
    IF e = PH THEN
        CASE p = "B2"  -> PhPassB2(cx, cx.zs, st)
          [] p = "A1b" -> PhPassA1b(cx, cx.zs, st)
          [] p = "A1a" -> PhPassA1a(cx, cx.zs, st)
          [] p = "A2"  -> PhPassA2(cx, cx.zs, st)
          [] p = "B"   -> PhPassB(cx, cx.zs, st)
          [] p = "C"   -> PhPassC(cx, cx.zs, st)
          [] p = "D"   -> PhPassD(cx, cx.zs, st)
    ELSE IF e = SM THEN
        CASE p = "A"   -> SmPassA(cx, cx.zs, st)
          [] p = "A2"  -> SmPassA2(cx, cx.zs, st)
          [] p = "B"   -> SmPassB(cx, cx.zs, st)
          [] p = "C"   -> SmPassC(cx, cx.zs, st)
    ELSE IF p = "A" THEN InlinePass(e, cx, cx.zs, st)
    ELSE TwoLinePass(e, cx, cx.zs, st)

\* One pass of _items.
Pass ==
    /\ pc = "pass"
    /\ LET st == RunPass(ext, PassOrder(ext)[step], Cx, St) IN
        /\ used' = st.u
        /\ items' = st.it
    /\ step' = step + 1
    /\ pc' = IF step = Len(PassOrder(ext)) THEN "sort" ELSE "pass"
    /\ UNCHANGED <<ext, lines, cleaned, zs, ze, skip, rec, calls, seen, cls, raw, text, fix, paths, results, bpc, ocrs, EXTRACTORS, made, tpc, rtype, inst, got>>

\* items.sort(key=_src) and the loop that pops _src.
SortStrip ==
    /\ pc = "sort"
    /\ items' = SortAndStrip(items)
    /\ pc' = IF ext = PH THEN "orphan" ELSE IF ext = SM THEN "cap" ELSE "ret"
    /\ UNCHANGED <<ext, lines, step, cleaned, zs, ze, used, skip, rec, calls, seen, cls, raw, text, fix, paths, results, bpc, ocrs, EXTRACTORS, made, tpc, rtype, inst, got>>

\* items = self._infer_orphan(...), pharmacy_column only.
InferOrphan ==
    /\ pc = "orphan"
    /\ items' = PhInferOrphan(items, Cx, used)
    /\ pc' = "cap"
    /\ UNCHANGED <<ext, lines, step, cleaned, zs, ze, used, skip, rec, calls, seen, cls, raw, text, fix, paths, results, bpc, ocrs, EXTRACTORS, made, tpc, rtype, inst, got>>

\* The stated-count cap, pharmacy_column and supermarket.
Cap ==
    /\ pc = "cap"
    /\ items' = Capped(ext, items, cleaned)
    /\ pc' = "ret"
    /\ UNCHANGED <<ext, lines, step, cleaned, zs, ze, used, skip, rec, calls, seen, cls, raw, text, fix, paths, results, bpc, ocrs, EXTRACTORS, made, tpc, rtype, inst, got>>

\* extract() after _items: the result dict.
Return ==
    /\ pc = "ret"
    /\ rec' = Result(ext, cleaned, items)
    /\ pc' = "done"
    /\ UNCHANGED <<ext, lines, step, cleaned, zs, ze, used, skip, items, calls, seen, cls, raw, text, fix, paths, results, bpc, ocrs, EXTRACTORS, made, tpc, rtype, inst, got>>


\* ---- ReceiptClassifier ------------------------------------------------------
\* The keys of _SIGNATURES in dict order.
SignatureOrder == <<PH, SM, "fast_food", "department_store">>

\* The type one of whose chain_patterns finds a match inside the line.
ChainOf(l) ==
    CASE l.txt = "MERCURY DRUG" -> PH
      [] l.txt = "PUREGOLD"     -> SM
      [] l.txt = "JOLLIBEE"     -> "fast_food"
      [] l.txt = "KULTURA"      -> "department_store"
      [] OTHER                  -> NoStr

\* Pass 1 searches the lines joined by "\n": MERCURY\s+DRUG also matches
\* "MERCURY" at the end of one line and "DRUG" at the start of a later one
\* when only whitespace lies between.
ChainTypes(ls) ==
    {ChainOf(ls[i]) : i \in {j \in 1..Len(ls) : ChainOf(ls[j]) # NoStr}}
    \cup (IF \E i, j \in 1..Len(ls) :
                /\ i < j /\ ls[i].txt = "MERCURY" /\ ls[j].txt = "DRUG"
                /\ \A m \in (i + 1)..(j - 1) : ls[m].k = "blank"
          THEN {PH} ELSE {})

\* The type one of whose layout_patterns matches the stripped line.
LayoutOf(l) ==
    CASE l.k \in {"pa", "disc"}   -> PH
      [] l.k \in {"count", "php"} -> SM
      [] l.k = "hdr"              -> "fast_food"
      [] OTHER                    -> NoStr

LayoutTypes(ls) == {LayoutOf(ls[i]) : i \in {j \in 1..Len(ls) : LayoutOf(ls[j]) # NoStr}}

\* "for rtype, sig in _SIGNATURES.items()": the first type, in dict order,
\* that is in the non-empty set S.
FirstType(S) == SignatureOrder[MinOf({i \in 1..Len(SignatureOrder) : SignatureOrder[i] \in S})]

\* _PRICE_ONLY and _PRICE_INLINE of the classifier module.
ClsPriceOnly(l) == l.k = "price"
ClsPriceInline(l) == IsPriceInline(l)

StandalonePrices(ls) == Cardinality({i \in 1..Len(ls) : ClsPriceOnly(ls[i])})
InlinePrices(ls) ==
    Cardinality({i \in 1..Len(ls) : ClsPriceInline(ls[i]) /\ ~ClsPriceOnly(ls[i])})

\* The thresholds 0.12 and 0.18, in hundredths.
StandalonePriceRatioThreshold == 12
InlinePriceRatioThreshold == 18

\* _fingerprint_layout with ">" where the source has ">=".
FingerprintLayout_Strict(ls) ==
    IF ls = <<>> THEN "generic"
    ELSE IF 100 * StandalonePrices(ls) > StandalonePriceRatioThreshold * Len(ls)
    THEN PH
    ELSE IF 100 * InlinePrices(ls) > InlinePriceRatioThreshold * Len(ls)
    THEN "inline_price"
    ELSE "generic"

\* _fingerprint_layout with the inline ratio tested before the standalone one.
FingerprintLayout_InlineFirst(ls) ==
    IF ls = <<>> THEN "generic"
    ELSE IF 100 * InlinePrices(ls) >= InlinePriceRatioThreshold * Len(ls)
    THEN "inline_price"
    ELSE IF 100 * StandalonePrices(ls) >= StandalonePriceRatioThreshold * Len(ls)
    THEN PH
    ELSE "generic"

\* _fingerprint_layout: count / total >= threshold, cross-multiplied.
FingerprintLayout(ls) ==
    IF ls = <<>> THEN "generic"
    ELSE IF 100 * StandalonePrices(ls) >= StandalonePriceRatioThreshold * Len(ls)
    THEN PH
    ELSE IF 100 * InlinePrices(ls) >= InlinePriceRatioThreshold * Len(ls)
    THEN "inline_price"
    ELSE "generic"

\* classify with Pass 2 (layout markers) run before Pass 1 (chain names).
Classify_LayoutFirst(ls) ==
    IF ls = <<>> THEN [type |-> "generic", conf |-> "low"]
    ELSE IF LayoutTypes(ls) # {} THEN [type |-> FirstType(LayoutTypes(ls)), conf |-> "high"]
    ELSE IF ChainTypes(ls) # {} THEN [type |-> FirstType(ChainTypes(ls)), conf |-> "high"]
    ELSE IF FingerprintLayout(ls) # "generic"
    THEN [type |-> FingerprintLayout(ls), conf |-> "medium"]
    ELSE [type |-> "generic", conf |-> "low"]

\* classify: (receipt_type, confidence).
Classify(ls) ==
    IF ls = <<>> THEN [type |-> "generic", conf |-> "low"]
    ELSE IF ChainTypes(ls) # {} THEN [type |-> FirstType(ChainTypes(ls)), conf |-> "high"]
    ELSE IF LayoutTypes(ls) # {} THEN [type |-> FirstType(LayoutTypes(ls)), conf |-> "high"]
    ELSE IF FingerprintLayout(ls) # "generic"
    THEN [type |-> FingerprintLayout(ls), conf |-> "medium"]
    ELSE [type |-> "generic", conf |-> "low"]

\* One classify() call on the lines.
ClassifyCall ==
    /\ pc = "idle"
    /\ cls' = Classify(lines)
    /\ pc' = "classified"
    /\ UNCHANGED <<ext, lines, step, cleaned, zs, ze, used, skip, items, rec, calls, seen, raw, text, fix, paths, results, bpc, ocrs, EXTRACTORS, made, tpc, rtype, inst, got>>


\* ---- receipts ---------------------------------------------------------------
\* Single-item receipt whose TOTAL equals the item price.
S3 == << Name("MERCURY DRUG"), Pa("PA#9"), Price("450.00T", 45000, "T"),
         Name("PARACETAMOL 500mg"), Digits("480111222333", 12), Kw("TOTAL"),
         Price("450.00", 45000, ""), Kw("CHANGE"), Price("50.00", 5000, "") >>

\* One item found by pass B and one unclaimed name -> barcode pair.
S5 == << Pa("PA#9"), Name("BIOGESIC"), Digits("480000000001", 12),
         Price("100.00T", 10000, "T"), Name("NEOZEP"), Digits("480000000000", 12),
         Kw("TOTAL"), Price("250.00", 25000, "") >>

\* S5 followed by the change line of a 400.00 payment.
S5Change == S5 \o << Kw("CHANGE"), Price("150.00", 15000, "") >>

\* S5 with the unclaimed pair printed before the item.
S5First == << Pa("PA#9"), Name("NEOZEP"), Digits("480000000000", 12),
              Name("BIOGESIC"), Digits("480000000001", 12),
              Price("100.00T", 10000, "T"), Kw("TOTAL"), Price("250.00", 25000, "") >>

\* S5 with a second unclaimed pair.
S5Two == << Pa("PA#9"), Name("BIOGESIC"), Digits("480000000001", 12),
            Price("100.00T", 10000, "T"), Name("NEOZEP"), Digits("480000000000", 12),
            Name("AB"), Digits("480000000002", 12), Kw("TOTAL"),
            Price("250.00", 25000, "") >>

\* Two items whose price lines are missing, one discount line.
SDisc == << Name("BIOGESIC"), Disc("LESS BP DISC x 20.00", 2000),
            Digits("480000000001", 12), Name("NEOZEP"), Junk("*BP"),
            Digits("480000000002", 12) >>

\* A qty line in front of the barcode, the next price being the total.
SQty == << Name("BIOGESIC"), Qty("2 @ 50.00", 2, 5000), Digits("480000000001", 12),
           Price("100.00", 10000, ""), Kw("TOTAL") >>
SQtyZero == << Name("BIOGESIC"), Qty("0 @ 50.00", 0, 5000), Digits("480000000001", 12),
               Price("100.00", 10000, ""), Kw("TOTAL") >>

\* The total and the VAT printed with a tax letter.
STotal == << Name("JOLLIBEE"), Kw("TOTAL"), Price("100.00T", 10000, "T"),
             Kw("VAT"), Price("100.00V", 10000, "V"), InvLine("INVOICE# 123456", "123456"),
             DateLine("11/13/2025"), TimeLine("09:29 PM", "09", "29", "", " PM"),
             TinLine("VAT REG TIN 123-456-789-000", "123-456-789-000") >>

\* More items than the receipt states.
SCap == << Pa("PA#9"), Name("BIOGESIC"), Digits("480000000001", 12),
           Price("100.00T", 10000, "T"), Name("AB"), Price("50.00T", 5000, "T"),
           Count("** 1 item(s) **", 1) >>

\* Inline items with the payment lines inline as well.
SInline == << Name("JOLLIBEE"), Hdr("ORDER# 4521"),
              Inline("BIOGESIC  69.00", "BIOGESIC", 6900),
              QInline("2 PEACH MANGO PIE   69.00", 2, "PEACH MANGO PIE", 6900),
              InlineQ("POLO SHIRT   2   599.00", "POLO SHIRT", 2, 59900),
              Kw("TOTAL"), Price("199.00", 19900, ""),
              KwInline("CASH  200.00", "CASH", 20000) >>

\* Digit lines of 5, 14 and 15 digits after an inline item and after prices.
SSku == << Inline("NEOZEP  69.00", "NEOZEP", 6900), Digits("12345", 5),
           Name("BIOGESIC"), Price("100.00", 10000, ""), Digits("12345678901234", 14),
           Name("AB"), Price("100.00", 10000, ""), Digits("123456789012345", 15) >>

\* The only total-like line is a subtotal with its amount inline.
SSubTotal == << Name("JOLLIBEE"), Inline("BIOGESIC  69.00", "BIOGESIC", 6900),
                KwInline("SUB TOTAL  100.00", "SUB TOTAL", 10000) >>

\* A keyword total with its price on the next line, then an inline total.
STotalBoth == << Name("JOLLIBEE"), Kw("TOTAL"), Price("250.00", 25000, ""),
                 KwInline("GRAND TOTAL  100.00", "GRAND TOTAL", 10000) >>

\* A validity period and the transaction date, in both orders.
SRange == << RangeLine("Accred Period: 08/01/20-07/31/25", "08/01/20"),
             DateLine("11-13-25") >>
SRangeRev == << DateLine("11-13-25"),
                RangeLine("Accred Period: 08/01/20-07/31/25", "08/01/20") >>

\* A range whose line has a date context word, and one on a TXN line.
SRangeCtx == << Name("MERCURY DRUG"),
                DateTok("Valid on 08/01/20-07/31/25", "08/01/20", "-", "08/01") >>
SRangeTxn == << Name("MERCURY DRUG"),
                TxnLine("TXN#123456 08-01-20-07-31-25", "123456", "08-01-20", "-") >>

\* A TXN line with the date at its end, after a long line with a date.
STxn == << Name("MERCURY DRUG"),
           DateTok("PARACETAMOL 500mg exp 11/13/2025", "11/13/2025", "", ""),
           TxnLine("TXN#071432 11-01-25", "071432", "11-01-25", "") >>

\* Times with seconds, with a one-letter suffix, and without suffix.
STimeSec == << Name("JOLLIBEE"), TimeLine("14:35:22", "14", "35", "22", "") >>
STimeSecPm == << Name("JOLLIBEE"), TimeLine("14:35:22 PM", "14", "35", "22", " PM") >>
STimeP == << TimeLine("14:35", "14", "35", "", ""), TimeLine("02:15P", "02", "15", "", "P"),
             TimeLine("09:29 PM", "09", "29", "", " PM") >>

\* Two inline items, a separator and the PA# marker of the pharmacy zone.
SSepPa == << Inline("NEOZEP  69.00", "NEOZEP", 6900), Inline("NEOZEP  69.00", "NEOZEP", 6900),
            Sep("-----"), Pa("PA#9") >>

\* A name, a discount marker and a taxed price.
SMarker == << Name("BIOGESIC"), Junk("*BP"), Price("50.00T", 5000, "T") >>

\* Two items in the column layout after the start marker.
SColumn == << Pa("PA#9"), Price("100.00T", 10000, "T"), Name("BIOGESIC"),
              Price("200.00T", 20000, "T"), Name("NEOZEP") >>

\* A name, three junk lines and a taxed price.
SJunk3 == << Name("BIOGESIC"), Junk("*BP"), Junk("(T)"), Sep("-----"),
             Price("50.00T", 5000, "T") >>

\* A name, two junk lines and a taxed price.
SJunk2 == << Name("BIOGESIC"), Junk("*BP"), Junk("(T)"), Price("50.00T", 5000, "T") >>

\* A name seven lines before the start marker, with no name in between.
SBack7 == << Price("100.00", 10000, ""), Name("BIOGESIC"), Price("50.00T", 5000, "T"),
             Digits("480000000001", 12), Digits("480000000001", 12),
             Digits("480000000001", 12), Digits("480000000001", 12),
             Digits("480000000001", 12), Pa("PA#9"), Name("NEOZEP"),
             Price("50.00T", 5000, "T") >>

\* A short receipt that ends with a taxed price and a keyword line with a unit.
SRescueShort == << Name("BIOGESIC"), Price("50.00T", 5000, "T"), Digits("480000000001", 12),
                   Price("100.00T", 10000, "T"), KwProd("CASH COW MILK 500ML") >>

\* A receipt of more than 8 lines with a keyword line with a unit and a
\* price near its end.
SRescueLong == << Name("BIOGESIC"), Digits("480000000001", 12), Price("50.00T", 5000, "T"),
                  Name("NEOZEP"), Digits("480000000001", 12), Price("50.00T", 5000, "T"),
                  Name("ALAXAN"), Digits("480000000001", 12), Price("50.00T", 5000, "T"),
                  KwProd("CASH COW MILK 500ML"), Price("100.00", 10000, "") >>

\* The receipts of the pharmacy layouts: column pairs, junk runs, the
\* backward zone extension and the product rescue.
LayoutScenarios == {SRescueShort, SRescueLong, SBack7, SJunk2, SJunk3, SColumn}

Scenarios == {SSepPa, SMarker, S3, S5, S5Change, S5First, S5Two, SDisc, SQty, SQtyZero, STotal, SCap,
              SInline, SSku, SSubTotal, STotalBoth, SRange, SRangeRev, SRangeCtx,
              SRangeTxn, STxn, STimeSec, STimeSecPm, STimeP, <<Blank>>, <<Blank, Name("BIOGESIC"), Blank, Price("100.00", 10000, "")>>}

Inputs == SeqsUpTo(Alphabet, MaxLen) \cup Scenarios \cup LayoutScenarios

NoCls == [type |-> NoStr, conf |-> NoStr]

\* ---- one extract() call per behaviour --------------------------------------
Init ==
    /\ ext \in Extractors
    /\ lines \in Inputs
    /\ pc = "idle"
    /\ step = 1
    /\ cleaned = <<>>
    /\ zs = 0
    /\ ze = 0
    /\ used = {}
    /\ skip = {}
    /\ items = <<>>
    /\ rec = Empty
    /\ calls = 0
    /\ seen = {}
    /\ cls = NoCls
    /\ EXTRACTORS = NoInstances
    /\ made = <<>>
    /\ tpc = AllIdle
    /\ rtype = NoRequest
    /\ inst = NoInstance
    /\ got = NoInstance
    /\ paths = <<>>
    /\ results = <<>>
    /\ bpc = "idle"
    /\ ocrs = 0
    /\ raw = <<>>
    /\ text = <<>>
    /\ fix = 0

Next ==
    \/ Call
    \/ ItemsStart
    \/ Pass
    \/ SortStrip
    \/ InferOrphan
    \/ Cap
    \/ Return

Spec == Init /\ [][Next]_vars

\* ---- one extract() call that runs to its end ------------------------------
\* Longest line sequence of the exhaustive part of the inputs of SpecLive.
MaxLiveLen == 1

\* Every sequence of lines and blank lines up to MaxLiveLen, and the shorter
\* receipts of Scenarios.
LiveInputs ==
    SeqsUpTo(Alphabet \cup {Blank}, MaxLiveLen)
        \cup {s \in Scenarios : Len(s) <= MaxLiveLen + 3}

InitLive ==
    /\ ext \in Extractors
    /\ lines \in LiveInputs
    /\ pc = "idle"
    /\ step = 1
    /\ cleaned = <<>>
    /\ zs = 0
    /\ ze = 0
    /\ used = {}
    /\ skip = {}
    /\ items = <<>>
    /\ rec = Empty
    /\ calls = 0
    /\ seen = {}
    /\ cls = NoCls
    /\ EXTRACTORS = NoInstances
    /\ made = <<>>
    /\ tpc = AllIdle
    /\ rtype = NoRequest
    /\ inst = NoInstance
    /\ got = NoInstance
    /\ paths = <<>>
    /\ results = <<>>
    /\ bpc = "idle"
    /\ ocrs = 0
    /\ raw = <<>>
    /\ text = <<>>
    /\ fix = 0

\* extract() is straight-line code over bounded loops: a call that has
\* started keeps taking its next step.
SpecLive == InitLive /\ [][Next]_vars /\ WF_vars(Next)

\* ---- extract() on a receipt and on the receipt less one junk line ----------
\* Longest line sequence of the exhaustive part of the inputs of SpecJunk.
MaxJunkLen == 3

\* The line sequence without its i-th line.
RemoveAt(ls, i) == SubSeq(ls, 1, i - 1) \o SubSeq(ls, i + 1, Len(ls))

\* A marker such as *BP or (T), or a separator line.
JunkLine(l) == l.k \in {"junk", "sep"}

\* Receipts that hold a marker or a separator line.
JunkInputs ==
    {s \in SeqsUpTo(Alphabet \cup {Junk("*BP"), Sep("-----")}, MaxJunkLen)
            \cup Scenarios : \E i \in 1..Len(s) : JunkLine(s[i])}

\* The caller takes the returned record and calls extract() on the same
\* instance with the same lines less one junk line.
DeleteJunk ==
    /\ pc = "done"
    /\ calls = 0
    /\ \E i \in 1..Len(lines) :
          /\ JunkLine(lines[i])
          /\ lines' = RemoveAt(lines, i)
    /\ seen' = {[e |-> ext, ls |-> lines, rec |-> rec]}
    /\ calls' = 1
    /\ pc' = "idle"
    /\ UNCHANGED <<ext, step, cleaned, zs, ze, used, skip, items, rec, cls, raw, text, fix, paths, results, bpc, ocrs, EXTRACTORS, made, tpc, rtype, inst, got>>

InitJunk ==
    /\ ext \in Extractors
    /\ lines \in JunkInputs
    /\ pc = "idle"
    /\ step = 1
    /\ cleaned = <<>>
    /\ zs = 0
    /\ ze = 0
    /\ used = {}
    /\ skip = {}
    /\ items = <<>>
    /\ rec = Empty
    /\ calls = 0
    /\ seen = {}
    /\ cls = NoCls
    /\ EXTRACTORS = NoInstances
    /\ made = <<>>
    /\ tpc = AllIdle
    /\ rtype = NoRequest
    /\ inst = NoInstance
    /\ got = NoInstance
    /\ paths = <<>>
    /\ results = <<>>
    /\ bpc = "idle"
    /\ ocrs = 0
    /\ raw = <<>>
    /\ text = <<>>
    /\ fix = 0

NextJunk ==
    \/ Call
    \/ ItemsStart
    \/ Pass
    \/ SortStrip
    \/ InferOrphan
    \/ Cap
    \/ Return
    \/ DeleteJunk

SpecJunk == InitJunk /\ [][NextJunk]_vars

\* ---- repeated extract() calls on the cached instances ----------------------
\* Number of further calls after the first one.
MaxCalls == 2

CallInputs == {S5, SDisc, STotal}
CallExtractors == {PH, "fast_food"}

\* The caller takes the returned record and calls extract() again, on any of
\* the cached instances and with any input.  The locals of the finished call
\* are dead; the instances hold no attributes.
NewCall ==
    /\ pc = "done"
    /\ calls < MaxCalls
    /\ seen' = seen \cup {[e |-> ext, ls |-> lines, rec |-> rec]}
    /\ calls' = calls + 1
    /\ ext' \in CallExtractors
    /\ lines' \in CallInputs
    /\ pc' = "idle"
    /\ UNCHANGED <<step, cleaned, zs, ze, used, skip, items, rec, cls, raw, text, fix, paths, results, bpc, ocrs, EXTRACTORS, made, tpc, rtype, inst, got>>

InitCalls ==
    /\ ext \in CallExtractors
    /\ lines \in CallInputs
    /\ pc = "idle"
    /\ step = 1
    /\ cleaned = <<>>
    /\ zs = 0
    /\ ze = 0
    /\ used = {}
    /\ skip = {}
    /\ items = <<>>
    /\ rec = Empty
    /\ calls = 0
    /\ seen = {}
    /\ cls = NoCls
    /\ EXTRACTORS = NoInstances
    /\ made = <<>>
    /\ tpc = AllIdle
    /\ rtype = NoRequest
    /\ inst = NoInstance
    /\ got = NoInstance
    /\ paths = <<>>
    /\ results = <<>>
    /\ bpc = "idle"
    /\ ocrs = 0
    /\ raw = <<>>
    /\ text = <<>>
    /\ fix = 0

NextCalls ==
    \/ Call
    \/ ItemsStart
    \/ Pass
    \/ SortStrip
    \/ InferOrphan
    \/ Cap
    \/ Return
    \/ NewCall

SpecCalls == InitCalls /\ [][NextCalls]_vars

\* ---- classify() --------------------------------------------------------------
\* Longest receipt of the fingerprint part of the classifier's input set.
MaxRows == 10

ClsAlphabet ==
    { Name("MERCURY DRUG"), Name("JOLLIBEE"), Name("MERCURY"), Name("DRUG"),
      Pa("PA#9"), Hdr("ORDER# 4521"), Php("PHP"), Price("100.00", 10000, ""),
      Inline("NEOZEP  69.00", "NEOZEP", 6900), Name("BIOGESIC"), Blank }

\* A receipt of n lines: p price-only lines, i inline-price lines, names.
Mix(p, i, n) ==
    [j \in 1..n |-> IF j <= p THEN Price("100.00", 10000, "")
                    ELSE IF j <= p + i THEN Inline("NEOZEP  69.00", "NEOZEP", 6900)
                    ELSE Name("BIOGESIC")]

\* 30 lines, 6 of them price-only, 2 inline-price.
S6 == Mix(6, 2, 30)

ClsInputs ==
    SeqsUpTo(ClsAlphabet, MaxLen)
    \cup {Mix(p, i, n) : p \in 0..2, i \in 0..2, n \in 4..MaxRows}
    \cup {S6, Mix(3, 0, 25), Mix(0, 9, 50), Mix(2, 3, 17)}

InitClassify ==
    /\ ext = "generic"
    /\ lines \in ClsInputs
    /\ pc = "idle"
    /\ step = 1
    /\ cleaned = <<>>
    /\ zs = 0
    /\ ze = 0
    /\ used = {}
    /\ skip = {}
    /\ items = <<>>
    /\ rec = Empty
    /\ calls = 0
    /\ seen = {}
    /\ cls = NoCls
    /\ EXTRACTORS = NoInstances
    /\ made = <<>>
    /\ tpc = AllIdle
    /\ rtype = NoRequest
    /\ inst = NoInstance
    /\ got = NoInstance
    /\ paths = <<>>
    /\ results = <<>>
    /\ bpc = "idle"
    /\ ocrs = 0
    /\ raw = <<>>
    /\ text = <<>>
    /\ fix = 0

NextClassify == ClassifyCall

SpecClassify == InitClassify /\ [][NextClassify]_vars


\* ---- properties of what extract() returns -----------------------------------
Returned == pc = "done"

\* The line indices an item was made from: the lines its pass marked used and
\* the line its price was read from (an inferred price is read from no line of
\* the item's own).
Contrib(item) ==
    item.g_lines \cup (IF item.g_pass = "orphan" THEN {} ELSE {item.g_from})

\* The values printed with a T / X / Z letter somewhere on the receipt.
TaxedValues(ls) == {ls[i].c : i \in {j \in 1..Len(ls) : IsTaxedPrice(ls[j])}}

\* C1: within one extraction no line index contributes to two different
\* returned items, whichever passes emitted them.
C1_NoDoubleUse ==
    Returned =>
        \A i, j \in 1..Len(rec.items) :
            i # j => Contrib(rec.items[i]) \cap Contrib(rec.items[j]) = {}

\* C2: no returned item has a price that is in skip_prices, unless that value
\* is also printed as a taxed price somewhere on the receipt.
C2_SkipPriceExclusion ==
    Returned =>
        \A i \in 1..Len(rec.items) :
            rec.items[i].price \in skip => rec.items[i].price \in TaxedValues(cleaned)

\* C3: the returned items are in ascending order of the index of their name
\* line, also after the stated-count cap and after orphan inference.
C3_AscendingNameIndex ==
    Returned =>
        \A i, j \in 1..Len(rec.items) :
            i < j => rec.items[i].g_name <= rec.items[j].g_name

\* C4: every returned item has price > 0, derived (qty x unit price),
\* discount-recovered and inferred prices included.
C4_PricePositive ==
    Returned => \A i \in 1..Len(rec.items) : rec.items[i].price > 0

\* The seven fields the shared field extractors fill.
SharedFields(r) ==
    <<r.store_name, r.invoice_number, r.date, r.time, r.total_amount, r.vat_amount, r.tin>>

\* C5: the seven shared fields of the returned record are what each of the six
\* extractor classes returns for the same lines.
C5_FieldsIndependent ==
    Returned =>
        \A e \in Extractors :
            SharedFields(rec) =
                SharedFields(IF cleaned = <<>> THEN Empty ELSE Result(e, cleaned, <<>>))

\* The unclaimed name -> barcode pairs left in the zone after the passes.
UnclaimedPairs ==
    {i \in zs..(ze - 1) :
        /\ i \notin used
        /\ IsName(PH, At(cleaned, i), Len(cleaned), i)
        /\ SkipUsed(i + 1, ze, used) < ze
        /\ IsBarcode(At(cleaned, SkipUsed(i + 1, ze, used)))}

Inferred == {i \in 1..Len(items) : items[i].g_pass = "orphan"}
Extracted == SelectSeq(items, LAMBDA it : it.g_pass # "orphan")

\* C7: after orphan inference: with exactly one unclaimed pair and a receipt
\* total >= the sum of the extracted prices, exactly one item is synthesized,
\* priced total - sum and carrying the pair's barcode; with two or more
\* unclaimed pairs none is synthesized.
C7_OrphanInference ==
    (pc = "cap" /\ ext = PH) =>
        /\ (/\ Cardinality(UnclaimedPairs) = 1
            /\ Total(PH, cleaned) # None
            /\ Total(PH, cleaned) >= SumPrices(Extracted))
           => /\ Cardinality(Inferred) = 1
              /\ \A i \in Inferred :
                    /\ items[i].price = Total(PH, cleaned) - SumPrices(Extracted)
                    /\ \E p \in UnclaimedPairs :
                          items[i].sku = At(cleaned, SkipUsed(p + 1, ze, used)).txt
        /\ Cardinality(UnclaimedPairs) >= 2 => Inferred = {}

\* C9: no returned item carries the _src key.
C9_NoSourceIndex ==
    Returned => \A i \in 1..Len(rec.items) : rec.items[i].src = None


\* C6: extract is a pure function of the lines: a call returns the record
\* every earlier call with the same lines on the same instance returned,
\* whatever calls lie in between, and no step of a call writes the caller's
\* list.
C6_PureIdempotent ==
    /\ [](Returned =>
            \A s \in seen : (s.e = ext /\ s.ls = lines) => s.rec = rec)
    /\ [][pc # "done" => lines' = lines]_vars

\* A third call returned; the first had the same lines on the same instance
\* and found items, the second had other lines.
C6_Witness ==
    /\ Returned
    /\ calls = 2
    /\ rec.items # <<>>
    /\ \E s \in seen : s.e = ext /\ s.ls = lines /\ s.rec = rec
    /\ \E s \in seen : s.ls # lines

\* C8: in pharmacy_column a value printed as a taxed price anywhere on the
\* receipt is never in skip_prices, and the single-item receipt whose TOTAL
\* equals the item price yields exactly one item, priced 450.00.
C8_TaxedNeverSkipped ==
    /\ (ext = PH /\ pc \notin {"idle", "zone"}) => skip \cap TaxedValues(cleaned) = {}
    /\ (Returned /\ ext = PH /\ lines = S3) =>
           Len(rec.items) = 1 /\ rec.items[1].price = 45000

\* The single-item receipt went through pharmacy_column: 450.00 follows TOTAL,
\* is printed taxed as well, and one item came back.
C8_Witness ==
    /\ Returned
    /\ ext = PH
    /\ lines = S3
    /\ 45000 \in TaxedValues(cleaned)
    /\ 45000 \notin skip
    /\ 5000 \in skip
    /\ Len(rec.items) = 1

\* count / total reaches the threshold (in hundredths) on a non-empty receipt.
Reaches(count, total, threshold) == total > 0 /\ 100 * count >= threshold * total

\* No chain signal, no layout marker, neither fingerprint ratio at threshold.
NoSignal(ls) ==
    /\ ChainTypes(ls) = {}
    /\ LayoutTypes(ls) = {}
    /\ ~Reaches(StandalonePrices(ls), Len(ls), StandalonePriceRatioThreshold)
    /\ ~Reaches(InlinePrices(ls), Len(ls), InlinePriceRatioThreshold)

\* C10: classify returns one of the six types with one of the three
\* confidences for every line sequence; generic is returned exactly when
\* there is no signal, and always with low confidence.
C10_ClassifyTotal ==
    pc = "classified" =>
        /\ cls.type \in Extractors
        /\ cls.conf \in {"high", "medium", "low"}
        /\ (cls.type = "generic" <=> NoSignal(lines))
        /\ (cls.type = "generic" => cls.conf = "low")

\* A receipt with price-only and inline-price lines, both below threshold,
\* was classified generic / low.
C10_Witness ==
    /\ pc = "classified"
    /\ cls = [type |-> "generic", conf |-> "low"]
    /\ StandalonePrices(lines) > 0
    /\ InlinePrices(lines) > 0

\* ---- properties of what classify() returns -----------------------------------
Classified == pc = "classified"

\* C11: a chain signal of any type decides the type, with high confidence,
\* also when layout markers of other types are present; layout markers decide
\* (high) only when no chain signal occurs; the fingerprint is consulted only
\* when neither occurs.
C11_PassOrder ==
    (Classified /\ lines # <<>>) =>
        /\ ChainTypes(lines) # {} =>
              cls.type \in ChainTypes(lines) /\ cls.conf = "high"
        /\ (ChainTypes(lines) = {} /\ LayoutTypes(lines) # {}) =>
              cls.type \in LayoutTypes(lines) /\ cls.conf = "high"
        /\ cls.conf # "high" => (ChainTypes(lines) = {} /\ LayoutTypes(lines) = {})

\* A receipt with the chain name of one type and a layout marker of another
\* was classified by the chain name.
C11_Witness ==
    /\ Classified
    /\ ChainTypes(lines) = {"fast_food"}
    /\ LayoutTypes(lines) = {PH}
    /\ cls = [type |-> "fast_food", conf |-> "high"]

\* C12: with no chain signal and no layout marker on a non-empty input:
\* pharmacy_column / medium if price-only lines / lines >= 0.12, otherwise
\* inline_price / medium if inline lines / lines >= 0.18, otherwise
\* generic / low; 30 lines with 6 price-only and 2 inline give
\* pharmacy_column / medium.
C12_Fingerprint ==
    /\ (Classified /\ lines # <<>> /\ ChainTypes(lines) = {} /\ LayoutTypes(lines) = {}) =>
          cls = IF Reaches(StandalonePrices(lines), Len(lines), StandalonePriceRatioThreshold)
                THEN [type |-> PH, conf |-> "medium"]
                ELSE IF Reaches(InlinePrices(lines), Len(lines), InlinePriceRatioThreshold)
                THEN [type |-> "inline_price", conf |-> "medium"]
                ELSE [type |-> "generic", conf |-> "low"]
    /\ (Classified /\ lines = S6) => cls = [type |-> PH, conf |-> "medium"]

\* The standalone ratio is exactly 0.12 (3 of 25) and the receipt was
\* classified pharmacy_column / medium.
C12_Witness ==
    /\ Classified
    /\ Len(lines) = 25
    /\ StandalonePrices(lines) = 3
    /\ ChainTypes(lines) = {} /\ LayoutTypes(lines) = {}
    /\ cls = [type |-> PH, conf |-> "medium"]

\* The deductions of the record's own fields, in hundredths.
Deductions(r) ==
    (IF r.store_name = NoStr THEN 15 ELSE 0) + (IF r.total_amount = None THEN 25 ELSE 0)
    + (IF r.date = NoStr THEN 10 ELSE 0) + (IF r.items = <<>> THEN 20 ELSE 0)
    + (IF r.invoice_number = NoStr THEN 5 ELSE 0)

\* C13: on an input with a non-blank line extraction_confidence is 1.0 minus
\* 0.15 / 0.25 / 0.10 / 0.20 / 0.05 for a null store_name / total_amount /
\* date / empty items / null invoice_number, floored at 0; on every input it
\* lies in [0, 1].
C13_Confidence ==
    Returned =>
        /\ cleaned # <<>> =>
              rec.extraction_confidence =
                  IF Deductions(rec) > 100 THEN 0 ELSE 100 - Deductions(rec)
        /\ rec.extraction_confidence \in 0..100

\* A record with store name, total and items but no date and no invoice
\* number came back with confidence 0.85.
C13_Witness ==
    /\ Returned
    /\ rec.store_name # NoStr /\ rec.total_amount # None /\ rec.items # <<>>
    /\ rec.date = NoStr /\ rec.invoice_number = NoStr
    /\ rec.extraction_confidence = 85

\* C14: a returned item's sku, when not null, is the text of a line of 6 to
\* 14 decimal digits and nothing else.
C14_SkuValid ==
    Returned =>
        \A i \in 1..Len(rec.items) :
            rec.items[i].sku # NoStr =>
                /\ Len(rec.items[i].sku) \in 6..14
                /\ \E j \in 1..Len(cleaned) :
                      /\ cleaned[j].k = "digits"
                      /\ cleaned[j].txt = rec.items[i].sku
                      /\ cleaned[j].q = Len(rec.items[i].sku)

\* The receipt with 5-, 14- and 15-digit lines came back: the 14-digit line
\* is a sku, the items next to the 5- and 15-digit lines have none.
C14_Witness ==
    /\ Returned
    /\ lines = SSku
    /\ \E i \in 1..Len(rec.items) : rec.items[i].sku = "12345678901234"
    /\ \E i \in 1..Len(rec.items) : rec.items[i].name = "NEOZEP" /\ rec.items[i].sku = NoStr
    /\ \E i \in 1..Len(rec.items) : rec.items[i].name = "AB" /\ rec.items[i].sku = NoStr

\* A line labelled SUBTOTAL or SUB TOTAL, with or without the amount inline.
SubtotalLabel(l) ==
    \/ l.k = "kw" /\ l.txt \in {"SUBTOTAL", "SUB TOTAL"}
    \/ l.k = "kwinline" /\ l.nm \in {"SUBTOTAL", "SUB TOTAL"}

\* C15: total_amount is never supplied by a line labelled SUBTOTAL or
\* SUB TOTAL, inline or as a label followed by a price line, and an inline
\* total takes precedence over a keyword line followed by a price line.
C15_NoSubtotal ==
    (Returned /\ cleaned # <<>>) =>
        LET t == TotalLine(ext, cleaned) IN
        /\ rec.total_amount = Total(ext, cleaned)
        /\ t.kind # "none" => ~SubtotalLabel(cleaned[t.i])
        /\ (\E i \in 1..Len(cleaned) : TotalPattern(cleaned[i]) # 0) =>
              t.kind = "inline" /\ rec.total_amount = cleaned[t.i].c


\* C16: the date field is never a date token that is immediately followed by
\* '-' in its line, in whichever round of the date search it was found; on
\* the receipt with the accreditation period and the line 11-13-25 the date
\* is 11-13-25 in both orders of the two lines.
C16_RangeStart ==
    (Returned /\ cleaned # <<>>) =>
        LET d == DateFrom(cleaned) IN
        /\ rec.date = Date(cleaned)
        /\ d.round \in {1, 2, 5} => cleaned[d.i].suf # "-"
        /\ lines \in {SRange, SRangeRev} => rec.date = "11-13-25"

\* The time a line holds under the patterns HH:MM:SS and HH:MM with a
\* suffix: its digit groups and its suffix as written.
TimeText(l) ==
    IF l.y = "" THEN l.nm \o ":" \o l.x \o l.suf
    ELSE l.nm \o ":" \o l.x \o ":" \o l.y \o l.suf

\* A line that holds a time with seconds or with an A / P / AM / PM suffix.
HoldsTime(l) == l.k = "time" /\ (l.y # "" \/ l.suf # "")

\* C17: the time field is the time of the first line, in line order, that
\* holds HH:MM:SS or a suffixed HH:MM: a line with 14:35:22 yields a time
\* that includes the seconds, a line with 02:15P yields 02:15P.
C17_TimeFirstMatch ==
    (Returned /\ cleaned # <<>>) =>
        LET ts == {i \in 1..Len(cleaned) : HoldsTime(cleaned[i])} IN
        IF ts = {} THEN rec.time = NoStr
        ELSE rec.time = TimeText(cleaned[MinOf(ts)])


C19_JunkDeletion ==
    (Returned /\ calls = 1) =>
        \A s \in seen :
            /\ Len(rec.items) <= Len(s.rec.items) + 1
            /\ Len(s.rec.items) <= Len(rec.items) + 1


\* The sum of price x qty over the items; an item without a price adds
\* nothing, an item without a quantity counts once.
RECURSIVE ItemSum(_)
ItemSum(its) ==
    IF its = <<>> THEN 0
    ELSE (IF Head(its).price = None THEN 0
          ELSE Head(its).price * (IF Head(its).qty = None THEN 1 ELSE Head(its).qty))
         + ItemSum(Tail(its))

\* The value a reader of the returned dict finds under key f: null when
\* the dict has no such key.
FieldOf(r, f) == IF f \in DOMAIN r THEN r[f] ELSE NoStr

\* C20: when the sum of price x qty over the extracted items is greater
\* than 1.5 x the extracted total, the returned record carries
\* extraction_warning = "item_sum_exceeds_total", and the items the passes
\* extracted are all in the record.
C20_ItemSumWarning ==
    (Returned /\ cleaned # <<>>) =>
        /\ rec.items = items
        /\ (rec.total_amount # None /\ 10 * ItemSum(rec.items) > 15 * rec.total_amount) =>
              FieldOf(rec, "extraction_warning") = "item_sum_exceeds_total"


\* ---- PatternBasedCorrector: a line as a sequence of characters ------------
Digit == {"0", "1", "2", "3", "4", "5", "6", "7", "8", "9"}
Upper == {"A", "B", "C", "D", "E", "F", "G", "H", "I", "J", "K", "L", "M",
          "N", "O", "P", "Q", "R", "S", "T", "U", "V", "W", "X", "Y", "Z"}
Lower == {"a", "b", "c", "d", "e", "f", "g", "h", "i", "j", "k", "l", "m",
          "n", "o", "p", "q", "r", "s", "t", "u", "v", "w", "x", "y", "z"}
Alpha == Upper \cup Lower
Space == {" "}
Peso  == "₱"
Yen   == "¥"
Times == "×"
\* The bytes 0x01 and 0x02 that the replacement strings of
\* _fix_philippine_symbols hold.
Ctl1 == "^A"
Ctl2 == "^B"

\* The i-th character of t (1-based), "" outside the line.
Ch(t, i) == IF i >= 1 /\ i <= Len(t) THEN t[i] ELSE ""

\* The last index of the longest run of characters of S that starts at i
\* (i - 1 when t[i] is not in S).
RECURSIVE RunEnd(_, _, _)
RunEnd(t, i, S) == IF i <= Len(t) /\ t[i] \in S THEN RunEnd(t, i + 1, S) ELSE i - 1

\* \d[\d,]*\.\d{2} matched at i: the index of its last character, 0 when it
\* does not match.
AmountEnd(t, i) ==
    IF Ch(t, i) \notin Digit THEN 0
    ELSE LET j == RunEnd(t, i, Digit \cup {","}) IN
         IF Ch(t, j + 1) = "." /\ Ch(t, j + 2) \in Digit /\ Ch(t, j + 3) \in Digit
         THEN j + 3 ELSE 0

\* The patterns of the re.sub calls, matched at i: the index of the last
\* character of the match, 0 when the pattern does not match at i.
MatchEnd(kind, t, i) ==
    CASE kind = "peso" ->
            \* (?<![A-Z])P\s*(\d[\d,]*\.\d{2})
            IF t[i] = "P" /\ Ch(t, i - 1) \notin Upper
            THEN AmountEnd(t, RunEnd(t, i + 1, Space) + 1) ELSE 0
      [] kind = "yen" ->
            \* ¥\s*(\d[\d,]*\.\d{2})
            IF t[i] = Yen THEN AmountEnd(t, RunEnd(t, i + 1, Space) + 1) ELSE 0
      [] kind = "times" ->
            \* (\d)\s+[xX]\s+(\d)
            LET j == RunEnd(t, i + 1, Space)
                k == RunEnd(t, j + 2, Space)
            IN IF /\ t[i] \in Digit /\ j >= i + 1 /\ Ch(t, j + 1) \in {"x", "X"}
                  /\ k >= j + 2 /\ Ch(t, k + 1) \in Digit
               THEN k + 1 ELSE 0
      [] kind = "underscore" ->
            \* (\d)_(\d)
            IF t[i] \in Digit /\ Ch(t, i + 1) = "_" /\ Ch(t, i + 2) \in Digit
            THEN i + 2 ELSE 0
      [] kind = "caps_word" ->
            \* ([A-Z]{2,})([A-Z][a-z])
            LET e == RunEnd(t, i, Upper) IN
            IF e - i + 1 >= 3 /\ Ch(t, e + 1) \in Lower THEN e + 1 ELSE 0
      [] kind = "lower_upper" ->
            \* ([a-z])([A-Z])
            IF t[i] \in Lower /\ Ch(t, i + 1) \in Upper THEN i + 1 ELSE 0
      [] kind = "digits_word" ->
            \* (\d{4,})([A-Z][a-z])
            LET e == RunEnd(t, i, Digit) IN
            IF e - i + 1 >= 4 /\ Ch(t, e + 1) \in Upper /\ Ch(t, e + 2) \in Lower
            THEN e + 2 ELSE 0

\* The text a match t[i..e] is replaced by.
Repl(kind, t, i, e) ==
    CASE kind \in {"peso", "yen"} -> <<Peso, Ctl1>>
      [] kind = "times"           -> <<Ctl1, " ", Times, " ", Ctl2>>
      [] kind = "underscore"      -> <<Ctl1, "-", Ctl2>>
      [] kind = "caps_word"       -> SubSeq(t, i, e - 2) \o <<" ">> \o SubSeq(t, e - 1, e)
      [] kind = "lower_upper"     -> <<t[i], " ", t[e]>>
      [] kind = "digits_word"     -> SubSeq(t, i, e - 2) \o <<" ">> \o SubSeq(t, e - 1, e)

\* re.sub(pattern, replacement, t): the leftmost matches from i on, none
\* overlapping, each replaced.
RECURSIVE Sub(_, _, _)
Sub(kind, t, i) ==
    IF i > Len(t) THEN <<>>
    ELSE LET e == MatchEnd(kind, t, i) IN
         IF e = 0 THEN <<t[i]>> \o Sub(kind, t, i + 1)
         ELSE Repl(kind, t, i, e) \o Sub(kind, t, e + 1)

\* _fix_philippine_symbols.
FixPhilippineSymbols(t) ==
    Sub("underscore", Sub("times", Sub("yen", Sub("peso", t, 1), 1), 1), 1)

\* _fix_character_confusions: what the i-th character becomes.
Confused(t, i) ==
    LET c == t[i]
        p == Ch(t, i - 1)
        n == Ch(t, i + 1)
    IN CASE c = "0" /\ (p \in Alpha \/ n \in Alpha)
                    /\ (i = 1 \/ (p \in Upper /\ n \in Upper))      -> "O"
         [] c = "O" /\ p \in Digit /\ n \in Digit                    -> "0"
         [] c = "1" /\ p \in Upper /\ n \in Upper                    -> "I"
         [] c = "l" /\ (p \in Digit \/ n \in Digit)                  -> "1"
         [] c = "5" /\ Ch(t, i + 1) \in Upper /\ Ch(t, i + 2) \in Upper -> "S"
         [] OTHER                                                     -> c

FixCharacterConfusions(t) == [i \in 1..Len(t) |-> Confused(t, i)]


\* _fix_spacing_patterns.  Patterns 3 and 4 need one of the words SAN,
\* SANTA, ST, AVE, BRGY, CARE, SUPPORT, SERVICE, CENTER, STORE: no line over
\* Chars holds one, before or after the earlier fixes.
FixSpacingPatterns(t) == Sub("lower_upper", Sub("caps_word", t, 1), 1)

\* _fix_number_letter_boundaries.
FixNumberLetterBoundaries(t) == Sub("digits_word", t, 1)

\* The fixes of correct_line in the order it applies them.
FixOrder == << "philippine_symbols", "character_confusions", "spacing_patterns",
               "number_letter_boundaries", "critical_systematic_errors",
               "punctuation_spacing", "common_word_splits" >>

\* What fix f does to the line.  The last three fixes rewrite the word MIN,
\* a colon or a # between capitals and a digit, and words with lowercase
\* letters other than x: no line over Chars holds any of them.
RunFix(f, t) ==
    CASE f = "philippine_symbols"       -> FixPhilippineSymbols(t)
      [] f = "character_confusions"     -> FixCharacterConfusions(t)
      [] f = "spacing_patterns"         -> FixSpacingPatterns(t)
      [] f = "number_letter_boundaries" -> FixNumberLetterBoundaries(t)
      [] OTHER                          -> t

\* ---- the structural predicates, on characters ---------------------------
\* str.strip().
RECURSIVE LStrip(_)
LStrip(t) == IF t # <<>> /\ Head(t) \in Space THEN LStrip(Tail(t)) ELSE t
RECURSIVE RStrip(_)
RStrip(t) ==
    IF t # <<>> /\ t[Len(t)] \in Space THEN RStrip(SubSeq(t, 1, Len(t) - 1)) ELSE t
Strip(t) == LStrip(RStrip(t))

\* Whether s is: an optional character of lead, blanks, a group that starts
\* at a and ends at b, blanks, an optional character of tail, blanks.  The
\* index where the group has to start.
GroupStart(s, lead) ==
    RunEnd(s, (IF Ch(s, 1) \in lead THEN 2 ELSE 1), Space) + 1
\* Whether blanks, an optional character of tail and blanks fill s after b.
TailOk(s, b, tail) ==
    LET j == RunEnd(s, b + 1, Space) + 1 IN
    \/ j > Len(s)
    \/ s[j] \in tail /\ RunEnd(s, j + 1, Space) = Len(s)

\* str.upper() and the replacements O -> 0, I -> 1, L -> 1 of _price_of.
Normal(c) ==
    CASE c \in {"o", "O"}           -> "0"
      [] c \in {"i", "I", "l", "L"} -> "1"
      [] c = "p" -> "P"
      [] c = "t" -> "T"
      [] c = "x" -> "X"
      [] c = "z" -> "Z"
      [] c = "v" -> "V"
      [] c = "y" -> "Y"
      [] OTHER   -> c

\* _price_of: the normalisation of price-like lines,
\* ^[₱P]?\s*[\d\.,OIl]+\s*[TXZVvy]?\s*$ with IGNORECASE.
PriceLike(s) ==
    LET a == GroupStart(s, {Peso, "P", "p"})
        b == RunEnd(s, a, Digit \cup {".", ",", "O", "I", "l", "o", "i", "L"})
    IN b >= a /\ TailOk(s, b, {"T", "X", "Z", "V", "Y", "t", "x", "z", "v", "y"})

\* re.sub(r'(\d[\d,]+\.\d{2})1$', r'\1T', s): a trailing 1 read for T.
TrailingOne(s) ==
    LET n == Len(s)
    IN IF /\ n >= 6 /\ s[n] = "1" /\ s[n - 1] \in Digit /\ s[n - 2] \in Digit
          /\ s[n - 3] = "."
          /\ \E i \in 1..(n - 5) :
                /\ s[i] \in Digit
                /\ \A j \in i..(n - 4) : s[j] \in Digit \cup {","}
       THEN [s EXCEPT ![n] = "T"] ELSE s

\* The number a group of digits and commas denotes; "" and commas alone
\* denote 0.
RECURSIVE DigitsValue(_, _)
DigitsValue(t, acc) ==
    IF t = <<>> THEN acc
    ELSE IF Head(t) = "," THEN DigitsValue(Tail(t), acc)
    ELSE DigitsValue(Tail(t), 10 * acc + (CHOOSE d \in 0..9 : ToString(d) = Head(t)))

\* float() of the group ([\d,]+)\.(\d{1,2}) s[a..b], in centavos.
Centavos(s, a, dot, b) ==
    100 * DigitsValue(SubSeq(s, a, dot - 1), 0)
        + (IF b - dot = 1 THEN 10 ELSE 1) * DigitsValue(SubSeq(s, dot + 1, b), 0)

\* BaseExtractor._price_of on characters: centavos, None when the line is
\* no price.  No line over Chars holds the @ of a qty-at-price line.
PriceOfText(t) ==
    LET s0 == Strip(t)
        s1 == IF PriceLike(s0) THEN [i \in 1..Len(s0) |-> Normal(s0[i])] ELSE s0
        s  == TrailingOne(s1)
        \* _PRICE_ONLY: ^\s*[₱P]?\s*([\d,]+\.\d{1,2})\s*[TXZVvy]?\s*$
        a   == GroupStart(s, {Peso, "P"})
        dot == RunEnd(s, a, Digit \cup {","}) + 1
        b   == RunEnd(s, dot + 1, Digit)
    IN IF /\ dot > a /\ Ch(s, dot) = "." /\ b - dot \in {1, 2}
          /\ TailOk(s, b, {"T", "X", "Z", "V", "v", "y"})
       THEN Centavos(s, a, dot, b) ELSE None

\* _parse_qty_line on characters: <<qty, centavos>>, <<None, None>> when the
\* line is no qty line.  _QTY_LINE: ^(\d{1,4})\s*[@xX×]\s*([\d,]+\.\d{2})\s*$
ParseQtyText(t) ==
    LET s   == Strip(t)
        q   == RunEnd(s, 1, Digit)
        op  == RunEnd(s, q + 1, Space) + 1
        a   == RunEnd(s, op + 1, Space) + 1
        dot == RunEnd(s, a, Digit \cup {","}) + 1
        b   == RunEnd(s, dot + 1, Digit)
    IN IF /\ q \in 1..4 /\ Ch(s, op) \in {"@", "x", "X", Times}
          /\ dot > a /\ Ch(s, dot) = "." /\ b - dot = 2
          /\ RunEnd(s, b + 1, Space) = Len(s)
       THEN <<DigitsValue(SubSeq(s, 1, q), 0), Centavos(s, a, dot, b)>>
       ELSE <<None, None>>


\* ---- correct_line() as steps -------------------------------------------
\* Most pieces a line of the inputs of SpecRepair is put together from.
MaxPieces == 3

\* The pieces: the letter P, the words the fix must keep, amounts, a
\* quantity, the multiply letters, blanks and the signs.
Pieces ==
    { <<"P">>, <<"P", "H", "P">>, <<"P", "D", "R">>, <<"P", "C", "S">>,
      <<"2">>, <<"5", "0", ".", "0", "0">>, <<"1", ",", "2", "2", "0", ".", "0", "0">>,
      <<" ">>, <<"x">>, <<"X">>, <<Yen>>, <<Peso>>, <<"_">> }

\* The characters of the pieces.
Chars == UNION {{p[i] : i \in 1..Len(p)} : p \in Pieces}

RECURSIVE Joined(_)
Joined(k) ==
    IF k = 0 THEN {<<>>}
    ELSE LET shorter == Joined(k - 1) IN
         shorter \cup {s \o p : s \in shorter, p \in Pieces}

RepairInputs == Joined(MaxPieces)

\* correct_line(line): an empty line is returned as it is.
CorrectLine ==
    /\ fix = 0
    /\ text' = raw
    /\ fix' = IF raw = <<>> THEN Len(FixOrder) + 1 ELSE 1
    /\ UNCHANGED <<ext, lines, pc, step, cleaned, zs, ze, used, skip, items, rec, calls, seen, cls, raw, paths, results, bpc, ocrs, EXTRACTORS, made, tpc, rtype, inst, got>>

\* One fix of correct_line.
Fix ==
    /\ fix \in 1..Len(FixOrder)
    /\ text' = RunFix(FixOrder[fix], text)
    /\ fix' = fix + 1
    /\ UNCHANGED <<ext, lines, pc, step, cleaned, zs, ze, used, skip, items, rec, calls, seen, cls, raw, paths, results, bpc, ocrs, EXTRACTORS, made, tpc, rtype, inst, got>>

InitRepair ==
    /\ ext = "generic"
    /\ lines = <<>>
    /\ pc = "idle"
    /\ step = 1
    /\ cleaned = <<>>
    /\ zs = 0
    /\ ze = 0
    /\ used = {}
    /\ skip = {}
    /\ items = <<>>
    /\ rec = Empty
    /\ calls = 0
    /\ seen = {}
    /\ cls = NoCls
    /\ EXTRACTORS = NoInstances
    /\ made = <<>>
    /\ tpc = AllIdle
    /\ rtype = NoRequest
    /\ inst = NoInstance
    /\ got = NoInstance
    /\ paths = <<>>
    /\ results = <<>>
    /\ bpc = "idle"
    /\ ocrs = 0
    /\ raw \in RepairInputs
    /\ text = <<>>
    /\ fix = 0

NextRepair ==
    \/ CorrectLine
    \/ Fix

SpecRepair == InitRepair /\ [][NextRepair]_vars


\* correct_line has returned: every fix has run.
Repaired == fix = Len(FixOrder) + 1

\* The misread peso sign: the letter P directly followed by an amount that
\* runs to the end of the line.
PesoMisread(t) == Len(t) > 1 /\ t[1] = "P" /\ AmountEnd(t, 2) = Len(t)

KeptWords == {<<"P", "D", "R">>, <<"P", "H", "P">>, <<"P", "C", "S">>}

\* C21: the repaired line of a misread peso sign is the peso sign followed
\* by the same amount, the words PDR, PHP and PCS come back unchanged, and
\* a line that parses as a price or as a qty line before the repair parses
\* as one with the same value after it.
C21_RepairKeepsStructure ==
    Repaired =>
        /\ PesoMisread(raw) => text = <<Peso>> \o Tail(raw)
        /\ raw \in KeptWords => text = raw
        /\ PriceOfText(raw) # None => PriceOfText(text) = PriceOfText(raw)
        /\ ParseQtyText(raw) # <<None, None>> => ParseQtyText(text) = ParseQtyText(raw)


\* ---------------------------------------------------------------------
\* OCREngine.batch_extract and extract_text.
\* ---------------------------------------------------------------------

\* The files of the model: a receipt photo, a photo without text, a file
\* the OCR library fails on, and a path where no file is.
Files == {"receipt.jpg", "white.jpg", "broken.jpg", "gone.jpg"}

\* os.path.exists(image_path)
Exists(p) == p # "gone.jpg"

\* What self.ocr.ocr(image_path) does on a file that exists: "lines" when
\* it finds text, "none" for an empty result, "raise" for an exception.
OcrOutcome(p) ==
    CASE p = "receipt.jpg" -> "lines"
      [] p = "white.jpg"   -> "none"
      [] OTHER             -> "raise"

\* extract_text(image_path): the dictionary returned, or the exception
\* raised, written as [raised |-> TRUE, error |-> ...].
ExtractText(p) ==
    IF ~Exists(p)
    THEN [raised |-> TRUE, error |-> "Image not found: " \o p, ocr |-> 0]
    ELSE CASE OcrOutcome(p) = "lines" -> [raised |-> FALSE, status |-> "success", text |-> "text of " \o p, ocr |-> 1]
           [] OcrOutcome(p) = "none"  -> [raised |-> FALSE, status |-> "no_text_found", text |-> "", ocr |-> 1]
           [] OTHER                   -> [raised |-> TRUE, error |-> "ocr failed", ocr |-> 1]

\* The entry batch_extract appends for one path: the result of
\* extract_text, or the error entry written by the except branch.
BatchEntry(p) ==
    LET r == ExtractText(p) IN
    IF r.raised
    THEN [status |-> "error", error |-> r.error, image_path |-> p]
    ELSE [status |-> r.status, text |-> r.text]

MaxPaths == 3

PathLists == SeqsUpTo(Files, MaxPaths)

\* batch_extract(image_paths): results = []
BatchExtract ==
    /\ bpc = "idle"
    /\ bpc' = "loop"
    /\ results' = <<>>
    /\ UNCHANGED <<ext, lines, pc, step, cleaned, zs, ze, used, skip, items, rec, calls, seen, cls, raw, text, fix, paths, ocrs, EXTRACTORS, made, tpc, rtype, inst, got>>

\* The loop without its try/except: the exception of extract_text leaves
\* batch_extract.
BatchStep_NoExcept ==
    /\ bpc = "loop"
    /\ Len(results) < Len(paths)
    /\ LET p == paths[Len(results) + 1] IN
         /\ IF ExtractText(p).raised
            THEN bpc' = "raised" /\ results' = results
            ELSE bpc' = bpc /\ results' = Append(results, BatchEntry(p))
         /\ ocrs' = ocrs + ExtractText(p).ocr
    /\ UNCHANGED <<ext, lines, pc, step, cleaned, zs, ze, used, skip, items, rec, calls, seen, cls, raw, text, fix, paths, EXTRACTORS, made, tpc, rtype, inst, got>>

\* One turn of the loop: extract_text on the next path inside try/except.
BatchStep ==
    /\ bpc = "loop"
    /\ Len(results) < Len(paths)
    /\ LET p == paths[Len(results) + 1] IN
         /\ results' = Append(results, BatchEntry(p))
         /\ ocrs' = ocrs + ExtractText(p).ocr
    /\ UNCHANGED <<ext, lines, pc, step, cleaned, zs, ze, used, skip, items, rec, calls, seen, cls, raw, text, fix, paths, bpc, EXTRACTORS, made, tpc, rtype, inst, got>>

\* The loop is over: return results.
BatchReturn ==
    /\ bpc = "loop"
    /\ Len(results) = Len(paths)
    /\ bpc' = "returned"
    /\ UNCHANGED <<ext, lines, pc, step, cleaned, zs, ze, used, skip, items, rec, calls, seen, cls, raw, text, fix, paths, results, ocrs, EXTRACTORS, made, tpc, rtype, inst, got>>

InitBatch ==
    /\ ext = "generic"
    /\ lines = <<>>
    /\ pc = "idle"
    /\ step = 1
    /\ cleaned = <<>>
    /\ zs = 0
    /\ ze = 0
    /\ used = {}
    /\ skip = {}
    /\ items = <<>>
    /\ rec = Empty
    /\ calls = 0
    /\ seen = {}
    /\ cls = NoCls
    /\ EXTRACTORS = NoInstances
    /\ made = <<>>
    /\ tpc = AllIdle
    /\ rtype = NoRequest
    /\ inst = NoInstance
    /\ got = NoInstance
    /\ raw = <<>>
    /\ text = <<>>
    /\ fix = 0
    /\ paths \in PathLists
    /\ results = <<>>
    /\ bpc = "idle"
    /\ ocrs = 0

NextBatch ==
    \/ BatchExtract
    \/ BatchStep
    \/ BatchReturn

SpecBatch == InitBatch /\ [][NextBatch]_vars

\* The number of paths among the first n that name a file.
RECURSIVE ExistingAmong(_, _)
ExistingAmong(ps, n) ==
    IF n = 0 THEN 0
    ELSE ExistingAmong(ps, n - 1) + (IF Exists(ps[n]) THEN 1 ELSE 0)

\* C22: batch_extract never raises; at every moment the results are those
\* of the paths handled so far, in the order of the paths, a path whose
\* extraction fails gives an entry with status "error" that names it, a
\* missing file costs no OCR call, and when batch_extract has returned
\* there is one result for every path.
C22_BatchOnePerPath ==
    /\ bpc # "raised"
    /\ Len(results) <= Len(paths)
    /\ \A i \in 1..Len(results) :
         /\ ExtractText(paths[i]).raised
              => results[i].status = "error" /\ results[i].image_path = paths[i]
         /\ ~ExtractText(paths[i]).raised
              => results[i].status # "error" /\ results[i].text = ExtractText(paths[i]).text
    /\ ocrs = ExistingAmong(paths, Len(results))
    /\ bpc = "returned" => Len(results) = Len(paths)

\* A batch whose first path is missing and whose later path is a photo has
\* returned with an error entry followed by a success entry.
C22_Witness ==
    /\ bpc = "returned"
    /\ Len(paths) >= 2
    /\ paths[1] = "gone.jpg"
    /\ results[1].status = "error"
    /\ \E i \in 2..Len(paths) : results[i].status = "success"


\* ---------------------------------------------------------------------
\* Column layout of pharmacy receipts: the price is read before the name.
\* ---------------------------------------------------------------------

\* The lines of the item zone that the zone scan left free (the start
\* marker is marked used by the scan).
ZoneLines == {i \in zs..(ze - 1) : i \notin Zone(ext, cleaned).u}

\* The zone is k pairs of a taxed price line and a name line, from index s.
ColumnPairs(s, k) ==
    /\ ZoneLines = s..(s + 2 * k - 1)
    /\ \A j \in 0..(k - 1) :
         /\ IsTaxedPrice(At(cleaned, s + 2 * j))
         /\ IsName(PH, At(cleaned, s + 2 * j + 1), Len(cleaned), s + 2 * j + 1)

\* C23: on a pharmacy receipt whose item zone is k >= 2 consecutive pairs
\* of a taxed price line and a name line, the call returns exactly k items
\* and the price of every item was read from the line just before its name.
C23_ColumnPairing ==
    (Returned /\ ext = PH) =>
        \A s \in 0..Len(cleaned), k \in 2..Len(cleaned) :
            ColumnPairs(s, k) =>
                /\ Len(rec.items) = k
                /\ \A i \in 1..k : rec.items[i].g_from = rec.items[i].g_name - 1


\* ---------------------------------------------------------------------
\* Pass A1b across junk lines.
\* ---------------------------------------------------------------------

\* Most junk lines tried between a name and its price.
MaxJunkRun == 4

\* Before Pass A1b runs: line i is a free name of the zone, the k lines
\* after it are free junk lines, and the line after those is a free taxed
\* price that is not a skip price.
NameJunkPrice(i, k) ==
    LET n == Len(cleaned)
        j == i + k + 1
    IN /\ i \in zs..(ze - 1)
       /\ j < n
       /\ i \notin used
       /\ IsName(PH, At(cleaned, i), n, i)
       /\ \A m \in (i + 1)..(j - 1) :
            /\ m \notin used
            /\ NextPriceJunk(At(cleaned, m))
            /\ PriceOf(PH, At(cleaned, m)) = None
       /\ j \notin used
       /\ IsTaxedPrice(At(cleaned, j))
       /\ Pos(PriceOf(PH, At(cleaned, j)))
       /\ PriceOf(PH, At(cleaned, j)) \notin skip

\* Pass A1b is the pass that runs next.
AtA1b == pc = "pass" /\ ext = PH /\ PassOrder(ext)[step] = "A1b"

\* C24: Pass A1b emits a name followed by k junk lines and a taxed price as
\* one item with that price for k = 0, 1, 2, 3 and marks the name, the junk
\* lines and the price line used; with 4 junk lines it emits nothing for
\* the name.
C24_A1bAcrossJunk ==
    [][AtA1b =>
         \A i \in 0..Len(cleaned), k \in 0..MaxJunkRun :
             NameJunkPrice(i, k) =>
                 IF k <= 3
                 THEN /\ \E t \in 1..Len(items') :
                           /\ items'[t].g_name = i
                           /\ items'[t].g_pass = "A1b"
                           /\ items'[t].g_from = i + k + 1
                           /\ items'[t].price = PriceOf(PH, At(cleaned, i + k + 1))
                      /\ i..(i + k + 1) \subseteq used'
                 ELSE \A t \in 1..Len(items') :
                           ~(items'[t].g_name = i /\ items'[t].g_pass = "A1b")]_vars


\* ---------------------------------------------------------------------
\* The end of the item zone.
\* ---------------------------------------------------------------------

\* The indices of the lines that match _ZONE_END of the pharmacy and the
\* supermarket module: SUBTOTAL, SUB TOTAL, GRAND TOTAL, CHANGE, CHANGE
\* DUE, AMOUNT TENDERED, CASH TENDERED, TOTAL PAYMENT.
ZoneEndLines == {i \in 0..(Len(cleaned) - 1) : ZoneEnd(PH, At(cleaned, i))}

\* C25: in the record returned by any extractor no item has its name line
\* at or after the first line that matches a zone-end keyword.
C25_NoItemPastZoneEnd ==
    Returned =>
        \A e \in ZoneEndLines : \A t \in 1..Len(rec.items) : rec.items[t].g_name < e


\* ---------------------------------------------------------------------
\* The backward extension of the pharmacy item zone.
\* ---------------------------------------------------------------------

\* The zone scan of _items has run.
ZoneKnown == pc \in {"pass", "sort", "orphan", "cap", "ret", "done"}

\* The start-marker lines (_PA_MODE or _ZONE_START_EXTRA) the zone scan
\* acted on; it marks each of them used.
StartMarkers == Zone(ext, cleaned).u

\* The marker the zone start was resolved from: the scan acts on markers
\* only while the zone start is 0, so it is the last one it acted on.
ZoneMarker == CHOOSE m \in StartMarkers : \A i \in StartMarkers : i <= m

\* C26: with the start marker at index m the zone start of the pharmacy
\* extractor is at least m - 6, it is m or the index of a name line, and no
\* header line or separator lies between the zone start and the marker.
C26_BackwardAtMostSix ==
    (ZoneKnown /\ ext = PH /\ StartMarkers # {}) =>
        LET m == ZoneMarker IN
        /\ zs >= m - 6
        /\ zs = m \/ IsName(PH, At(cleaned, zs), Len(cleaned), zs)
        /\ \A i \in zs..(m - 1) :
             ~HeaderLine(At(cleaned, i)) /\ ~IsSeparator(PH, At(cleaned, i))


\* ---------------------------------------------------------------------
\* The position rule of the product rescue.
\* ---------------------------------------------------------------------

\* Line i holds a financial keyword together with a unit or product code
\* and lies in the bottom 25% of the receipt: i / n > 0.75.
BottomRescue(i) ==
    /\ i \in 0..(Len(cleaned) - 1)
    /\ At(cleaned, i).k = "kwprod"
    /\ 4 * i > 3 * Len(cleaned)

\* C27: no item of a pharmacy record has as its name line a line with a
\* financial keyword and a unit or product code that lies in the bottom
\* 25% of the receipt.
C27_NoRescueAtBottom ==
    (Returned /\ ext = PH) =>
        \A t \in 1..Len(rec.items) : ~BottomRescue(rec.items[t].g_name)


\* ---------------------------------------------------------------------
\* The stated-count cap.
\* ---------------------------------------------------------------------

\* The cap is about to act: more items than the receipt states.
CapActs ==
    /\ pc = "cap"
    /\ Pos(StatedItemCount(cleaned))
    /\ Len(items) > StatedItemCount(cleaned)

\* The name of the item is at most 6 characters long or contains one of
\* '#', ':', '*'.
Suspect(item) == Len(item.name) <= 6 \/ item.g_mark

\* C28: when more items were extracted than the receipt states, the cap
\* keeps exactly the stated number; no item with a barcode is removed while
\* an item without one is kept, and among items of the same barcode status
\* none with a plain name is removed while one with a short or marked name
\* is kept.
C28_StatedCountCap ==
    [][CapActs =>
         LET kept    == {items'[i] : i \in 1..Len(items')}
             removed == {items[i] : i \in 1..Len(items)} \ kept
         IN /\ Len(items') = StatedItemCount(cleaned)
            /\ \A r \in removed, k \in kept :
                 /\ ~(r.sku # NoStr /\ k.sku = NoStr)
                 /\ ((r.sku = NoStr) = (k.sku = NoStr)) => ~(~Suspect(r) /\ Suspect(k))]_vars


\* ---------------------------------------------------------------------
\* The store-name line and the items.
\* ---------------------------------------------------------------------

\* The index of the line _store_name returns (None when it returns None).
StoreNameIndex(ls) ==
    LET hit == {i \in 1..Len(ls) : i <= 8 /\ StoreNameLine(ls[i])} IN
    IF hit = {} THEN None ELSE MinOf(hit) - 1

\* C29: in a returned record with a store name no item has the store-name
\* line as its name line.
C29_StoreNameNotItem ==
    (Returned /\ rec.store_name # NoStr) =>
        \A t \in 1..Len(rec.items) : rec.items[t].g_name # StoreNameIndex(cleaned)


\* ---------------------------------------------------------------------
\* ExtractorFactory.get_extractor called from several threads.  A thread
\* can be switched out between any two of its steps; the test of the dict,
\* the construction, the store and the read of the dict are steps.
\* ---------------------------------------------------------------------

\* The receipt types the callers ask for: two keys of _CLASSES and a type
\* that is none of them.
Requests == {"pharmacy_column", "generic", "hardware_store"}

\* get_extractor(receipt_type): an unknown type becomes "generic".
GetExtractor(t, ty) ==
    /\ tpc[t] = "idle"
    /\ rtype' = [rtype EXCEPT ![t] = IF ty \in Extractors THEN ty ELSE "generic"]
    /\ tpc' = [tpc EXCEPT ![t] = "check"]
    /\ UNCHANGED <<ext, lines, pc, step, cleaned, zs, ze, used, skip, items, rec, calls, seen, cls, raw, text, fix, paths, results, bpc, ocrs, EXTRACTORS, made, inst, got>>

\* if receipt_type not in self._EXTRACTORS
CheckCached(t) ==
    /\ tpc[t] = "check"
    /\ tpc' = [tpc EXCEPT ![t] = IF EXTRACTORS[rtype[t]] = 0 THEN "construct" ELSE "return"]
    /\ UNCHANGED <<ext, lines, pc, step, cleaned, zs, ze, used, skip, items, rec, calls, seen, cls, raw, text, fix, paths, results, bpc, ocrs, EXTRACTORS, made, rtype, inst, got>>

\* cls(): a new instance of the class of the type.
Construct(t) ==
    /\ tpc[t] = "construct"
    /\ made' = Append(made, rtype[t])
    /\ inst' = [inst EXCEPT ![t] = Len(made) + 1]
    /\ tpc' = [tpc EXCEPT ![t] = "store"]
    /\ UNCHANGED <<ext, lines, pc, step, cleaned, zs, ze, used, skip, items, rec, calls, seen, cls, raw, text, fix, paths, results, bpc, ocrs, EXTRACTORS, rtype, got>>

\* self._EXTRACTORS[receipt_type] = <the new instance>
Store(t) ==
    /\ tpc[t] = "store"
    /\ EXTRACTORS' = [EXTRACTORS EXCEPT ![rtype[t]] = inst[t]]
    /\ tpc' = [tpc EXCEPT ![t] = "return"]
    /\ UNCHANGED <<ext, lines, pc, step, cleaned, zs, ze, used, skip, items, rec, calls, seen, cls, raw, text, fix, paths, results, bpc, ocrs, made, rtype, inst, got>>

\* return self._EXTRACTORS[receipt_type]
ReturnExtractor(t) ==
    /\ tpc[t] = "return"
    /\ got' = [got EXCEPT ![t] = EXTRACTORS[rtype[t]]]
    /\ tpc' = [tpc EXCEPT ![t] = "done"]
    /\ UNCHANGED <<ext, lines, pc, step, cleaned, zs, ze, used, skip, items, rec, calls, seen, cls, raw, text, fix, paths, results, bpc, ocrs, EXTRACTORS, made, rtype, inst>>

InitFactory ==
    /\ ext = "generic"
    /\ lines = <<>>
    /\ pc = "idle"
    /\ step = 1
    /\ cleaned = <<>>
    /\ zs = 0
    /\ ze = 0
    /\ used = {}
    /\ skip = {}
    /\ items = <<>>
    /\ rec = Empty
    /\ calls = 0
    /\ seen = {}
    /\ cls = NoCls
    /\ raw = <<>>
    /\ text = <<>>
    /\ fix = 0
    /\ paths = <<>>
    /\ results = <<>>
    /\ bpc = "idle"
    /\ ocrs = 0
    /\ EXTRACTORS = NoInstances
    /\ made = <<>>
    /\ tpc = AllIdle
    /\ rtype = NoRequest
    /\ inst = NoInstance
    /\ got = NoInstance

NextFactory ==
    \/ \E t \in Threads, ty \in Requests : GetExtractor(t, ty)
    \/ \E t \in Threads : CheckCached(t)
    \/ \E t \in Threads : Construct(t)
    \/ \E t \in Threads : Store(t)
    \/ \E t \in Threads : ReturnExtractor(t)

SpecFactory == InitFactory /\ [][NextFactory]_vars

\* C30: at most one instance of every receipt type is ever constructed, and
\* all callers whose type resolves to the same receipt type receive the
\* same instance.
C30_OneInstancePerType ==
    /\ \A i, j \in 1..Len(made) : i # j => made[i] # made[j]
    /\ \A a, b \in Threads :
         (tpc[a] = "done" /\ tpc[b] = "done" /\ rtype[a] = rtype[b]) => got[a] = got[b]

====
